---- MODULE Spec2Model ----
(***************************************************************************)
(* A model of the webhook Lambda of git-webhook-lambda                     *)
(* (src/codeBuildHandler.py): lambda_handler and the functions it calls.   *)
(*                                                                         *)
(* A Python str is a sequence of one-character strings, so that lower(),  *)
(* split(), startswith(), re.sub() and json.loads() are computed and not   *)
(* assumed.  A Python value is a record tagged by its type in field t.    *)
(* A call that may raise gives a record [ok, v, exc].  An operator that    *)
(* needs the result of a call takes it as a parameter.                     *)
(***************************************************************************)
EXTENDS Integers, Sequences, FiniteSets, TLC

----------------------------------------------------------------------------
(* Text *)

UpperChars ==
    <<"A", "B", "C", "D", "E", "F", "G", "H", "I", "J", "K", "L", "M",
      "N", "O", "P", "Q", "R", "S", "T", "U", "V", "W", "X", "Y", "Z">>

LowerChars ==
    <<"a", "b", "c", "d", "e", "f", "g", "h", "i", "j", "k", "l", "m",
      "n", "o", "p", "q", "r", "s", "t", "u", "v", "w", "x", "y", "z">>

DigitChars ==
    <<"0", "1", "2", "3", "4", "5", "6", "7", "8", "9">>

Range(s) == {s[k] : k \in 1..Len(s)}

\* str.lower()
Lower(s) ==
    [k \in 1..Len(s) |->
        IF \E j \in 1..26 : UpperChars[j] = s[k]
        THEN LowerChars[CHOOSE j \in 1..26 : UpperChars[j] = s[k]]
        ELSE s[k]]

\* str.upper()
Upper(s) ==
    [k \in 1..Len(s) |->
        IF \E j \in 1..26 : LowerChars[j] = s[k]
        THEN UpperChars[CHOOSE j \in 1..26 : LowerChars[j] = s[k]]
        ELSE s[k]]

\* the least index k >= from with s[k] in chars, or 0
IndexOfAny(s, chars, from) ==
    IF \E k \in from..Len(s) : s[k] \in chars
    THEN CHOOSE k \in from..Len(s) : s[k] \in chars /\ \A j \in from..(k - 1) : s[j] \notin chars
    ELSE 0

\* the least index k >= from with s[k] not in chars, or Len(s) + 1
RunEnd(s, chars, from) ==
    IF \E k \in from..Len(s) : s[k] \notin chars
    THEN CHOOSE k \in from..Len(s) : s[k] \notin chars /\ \A j \in from..(k - 1) : s[j] \in chars
    ELSE Len(s) + 1

\* word is in s at position p, as s.startswith(word, p - 1) tells
HasWordAt(s, p, word) ==
    /\ p + Len(word) - 1 <= Len(s)
    /\ SubSeq(s, p, p + Len(word) - 1) = word

\* s.split(c): the segments between the occurrences of c, at least one
RECURSIVE Split(_, _), SplitAt(_, _, _)
Split(s, c) == SplitAt(s, c, IndexOfAny(s, {c}, 1))

SplitAt(s, c, k) ==
    IF k = 0 THEN <<s>>
    ELSE <<SubSeq(s, 1, k - 1)>> \o Split(SubSeq(s, k + 1, Len(s)), c)

\* sep.join(parts)
RECURSIVE Join(_, _)
Join(parts, sep) ==
    IF parts = <<>> THEN <<>>
    ELSE IF Len(parts) = 1 THEN parts[1]
    ELSE parts[1] \o sep \o Join(Tail(parts), sep)

\* s.rstrip(): trailing blanks removed
RStrip(s) ==
    IF \E k \in 1..Len(s) : s[k] # " "
    THEN SubSeq(s, 1, CHOOSE k \in 1..Len(s) : s[k] # " " /\ \A j \in (k + 1)..Len(s) : s[j] = " ")
    ELSE <<>>

\* the decimal text of a natural number, as str() and json.dumps() write it
RECURSIVE IntToText(_)
IntToText(n) ==
    IF n < 10 THEN <<DigitChars[n + 1]>>
    ELSE IntToText(n \div 10) \o <<DigitChars[(n % 10) + 1]>>

\* the natural number a text of digits writes, as int() and json.loads() read it
RECURSIVE TextToInt(_)
TextToInt(s) ==
    IF s = <<>> THEN 0
    ELSE 10 * TextToInt(SubSeq(s, 1, Len(s) - 1))
         + (CHOOSE k \in 1..10 : DigitChars[k] = s[Len(s)]) - 1

\* the characters the regular expression class \w matches
WordChars == Range(UpperChars) \cup Range(LowerChars) \cup Range(DigitChars) \cup {"_"}

----------------------------------------------------------------------------
(* The texts *)

\* the names of the settings and of the keys of the dicts of codeBuildHandler.py, and
\* the two prefixes of the settings passed through
K ==
    [ CODEBUILD_PROJECT_NAME |->
          <<"C", "O", "D", "E", "B", "U", "I", "L", "D", "_", "P", "R", "O", "J", "E", "C",
            "T", "_", "N", "A", "M", "E">>,
      CODEBUILD_ENV_VARS_MAP |->
          <<"C", "O", "D", "E", "B", "U", "I", "L", "D", "_", "E", "N", "V", "_", "V", "A",
            "R", "S", "_", "M", "A", "P">>,
      CODEBUILD_URL |->
          <<"C", "O", "D", "E", "B", "U", "I", "L", "D", "_", "U", "R", "L">>,
      GIT_SERVER_URL |->
          <<"G", "I", "T", "_", "S", "E", "R", "V", "E", "R", "_", "U", "R", "L">>,
      GIT_USERNAME_SM_ARN |->
          <<"G", "I", "T", "_", "U", "S", "E", "R", "N", "A", "M", "E", "_", "S", "M", "_",
            "A", "R", "N">>,
      GIT_TOKEN_SM_ARN |->
          <<"G", "I", "T", "_", "T", "O", "K", "E", "N", "_", "S", "M", "_", "A", "R", "N">>,
      WEBHOOK_EVENT_TYPE |->
          <<"W", "E", "B", "H", "O", "O", "K", "_", "E", "V", "E", "N", "T", "_", "T", "Y",
            "P", "E">>,
      VALIDATE_DIGITAL_SIGNATURE |->
          <<"V", "A", "L", "I", "D", "A", "T", "E", "_", "D", "I", "G", "I", "T", "A", "L",
            "_", "S", "I", "G", "N", "A", "T", "U", "R", "E">>,
      GIT_SECRET_SM_ARN |->
          <<"G", "I", "T", "_", "S", "E", "C", "R", "E", "T", "_", "S", "M", "_", "A", "R",
            "N">>,
      GIT_SECRET |->
          <<"G", "I", "T", "_", "S", "E", "C", "R", "E", "T">>,
      GIT_CALLBACK_URI |->
          <<"G", "I", "T", "_", "C", "A", "L", "L", "B", "A", "C", "K", "_", "U", "R", "I">>,
      GIT_CALLBACK_PAYLOAD |->
          <<"G", "I", "T", "_", "C", "A", "L", "L", "B", "A", "C", "K", "_", "P", "A", "Y",
            "L", "O", "A", "D">>,
      GIT_USERNAME |->
          <<"G", "I", "T", "_", "U", "S", "E", "R", "N", "A", "M", "E">>,
      GIT_TOKEN |->
          <<"G", "I", "T", "_", "T", "O", "K", "E", "N">>,
      LATEST_SHORT_HASH |->
          <<"L", "A", "T", "E", "S", "T", "_", "S", "H", "O", "R", "T", "_", "H", "A", "S",
            "H">>,
      LATEST_COMMIT_HASH |->
          <<"L", "A", "T", "E", "S", "T", "_", "C", "O", "M", "M", "I", "T", "_", "H", "A",
            "S", "H">>,
      CODEBUILD_STATUS |->
          <<"C", "O", "D", "E", "B", "U", "I", "L", "D", "_", "S", "T", "A", "T", "U", "S">>,
      CALLBACK_DESCRIPTION |->
          <<"C", "A", "L", "L", "B", "A", "C", "K", "_", "D", "E", "S", "C", "R", "I", "P",
            "T", "I", "O", "N">>,
      USERVAR_ |->
          <<"U", "S", "E", "R", "V", "A", "R", "_">>,
      GIT_ |->
          <<"G", "I", "T", "_">>,
      action |->
          <<"a", "c", "t", "i", "o", "n">>,
      statusCode |->
          <<"s", "t", "a", "t", "u", "s", "C", "o", "d", "e">>,
      message |->
          <<"m", "e", "s", "s", "a", "g", "e">>,
      fault |->
          <<"f", "a", "u", "l", "t">>,
      LOGGING_LEVEL |->
          <<"L", "O", "G", "G", "I", "N", "G", "_", "L", "E", "V", "E", "L">> ]

\* the header names lambda_handler reads and the headers of prepare_response
H ==
    [ x_event_key |->
          <<"x", "-", "e", "v", "e", "n", "t", "-", "k", "e", "y">>,
      x_github_event |->
          <<"x", "-", "g", "i", "t", "h", "u", "b", "-", "e", "v", "e", "n", "t">>,
      x_hub_signature |->
          <<"x", "-", "h", "u", "b", "-", "s", "i", "g", "n", "a", "t", "u", "r", "e">>,
      ContentType |->
          <<"C", "o", "n", "t", "e", "n", "t", "-", "T", "y", "p", "e">>,
      ApplicationJson |->
          <<"a", "p", "p", "l", "i", "c", "a", "t", "i", "o", "n", "/", "j", "s", "o", "n">>,
      AllowOrigin |->
          <<"A", "c", "c", "e", "s", "s", "-", "C", "o", "n", "t", "r", "o", "l", "-", "A",
            "l", "l", "o", "w", "-", "O", "r", "i", "g", "i", "n">>,
      Star |->
          <<"*">>,
      AllowMethods |->
          <<"A", "c", "c", "e", "s", "s", "-", "C", "o", "n", "t", "r", "o", "l", "-", "A",
            "l", "l", "o", "w", "-", "M", "e", "t", "h", "o", "d", "s">>,
      PostGet |->
          <<"P", "O", "S", "T", ",", " ", "G", "E", "T">>,
      AllowHeaders |->
          <<"A", "c", "c", "e", "s", "s", "-", "C", "o", "n", "t", "r", "o", "l", "-", "A",
            "l", "l", "o", "w", "-", "H", "e", "a", "d", "e", "r", "s">>,
      AllowedHeaders |->
          <<"O", "r", "i", "g", "i", "n", ",", " ", "X", "-", "R", "e", "q", "u", "e", "s",
            "t", "e", "d", "-", "W", "i", "t", "h", ",", " ", "C", "o", "n", "t", "e", "n",
            "t", "-", "T", "y", "p", "e", ",", " ", "A", "c", "c", "e", "p", "t">> ]

\* the values codeBuildHandler.py compares with or sets
V ==
    [ diagnostics_ping |->
          <<"d", "i", "a", "g", "n", "o", "s", "t", "i", "c", "s", ":", "p", "i", "n", "g">>,
      ping |->
          <<"p", "i", "n", "g">>,
      true |->
          <<"t", "r", "u", "e">>,
      default_FALSE |->
          <<"F", "A", "L", "S", "E">>,
      INPROGRESS |->
          <<"I", "N", "P", "R", "O", "G", "R", "E", "S", "S">>,
      FAILED |->
          <<"F", "A", "I", "L", "E", "D">> ]

\* the texts of the messages of codeBuildHandler.py and of the exceptions of Python
M ==
    [ NotSubscriptable |->
          <<"o", "b", "j", "e", "c", "t", " ", "i", "s", " ", "n", "o", "t", " ", "s", "u",
            "b", "s", "c", "r", "i", "p", "t", "a", "b", "l", "e">>,
      IndicesMustBeIntegers |->
          <<"i", "n", "d", "i", "c", "e", "s", " ", "m", "u", "s", "t", " ", "b", "e", " ",
            "i", "n", "t", "e", "g", "e", "r", "s">>,
      IndexOutOfRange |->
          <<"i", "n", "d", "e", "x", " ", "o", "u", "t", " ", "o", "f", " ", "r", "a", "n",
            "g", "e">>,
      NotEnoughValues |->
          <<"n", "o", "t", " ", "e", "n", "o", "u", "g", "h", " ", "v", "a", "l", "u", "e",
            "s", " ", "t", "o", " ", "u", "n", "p", "a", "c", "k", " ", "(", "e", "x", "p",
            "e", "c", "t", "e", "d", " ", "2", ",", " ", "g", "o", "t", " ", "1", ")">>,
      TooManyValues |->
          <<"t", "o", "o", " ", "m", "a", "n", "y", " ", "v", "a", "l", "u", "e", "s", " ",
            "t", "o", " ", "u", "n", "p", "a", "c", "k", " ", "(", "e", "x", "p", "e", "c",
            "t", "e", "d", " ", "2", ")">>,
      InvalidKey |->
          <<"I", "n", "v", "a", "l", "i", "d", " ", "k", "e", "y", ":", " ">>,
      NoListFound |->
          <<"N", "o", " ", "o", "b", "j", "e", "c", "t", " ", "o", "f", " ", "t", "y", "p",
            "e", " ", "l", "i", "s", "t", " ", "f", "o", "u", "n", "d", " ", "i", "n", " ",
            "t", "h", "e", " ", "j", "s", "o", "n", " ", "f", "o", "r", " ", "t", "h", "e",
            " ", "k", "e", "y", ":", " ">>,
      InPath |->
          <<" ", "i", "n", " ", "p", "a", "t", "h", ":", " ">>,
      KeyPrefix |->
          <<"K", "e", "y", ":", " ">>,
      NotFoundInDict |->
          <<" ", "n", "o", "t", " ", "f", "o", "u", "n", "d", " ", "i", "n", " ", "t", "h",
            "e", " ", "d", "i", "c", "t", "i", "o", "n", "a", "r", "y">>,
      NoObjectFound |->
          <<"N", "o", " ", "o", "b", "j", "e", "c", "t", "/", "v", "a", "l", "u", "e", " ",
            "f", "o", "u", "n", "d", " ", "f", "o", "r", " ", "t", "h", "e", " ", "k", "e",
            "y", ":", " ">>,
      VarsNotSet |->
          <<"F", "o", "l", "l", "o", "w", "i", "n", "g", " ", "m", "a", "n", "d", "a", "t",
            "o", "r", "y", " ", "l", "a", "m", "b", "d", "a", " ", "v", "a", "r", "s", " ",
            "n", "o", "t", " ", "s", "e", "t", ":", " ">>,
      Variable |->
          <<"V", "a", "r", "i", "a", "b", "l", "e", ":", " ">>,
      MustNotBeEmpty |->
          <<" ", "m", "u", "s", "t", " ", "n", "o", "t", " ", "b", "e", " ", "e", "m", "p",
            "t", "y">>,
      WebhookConfigured |->
          <<"W", "e", "b", "h", "o", "o", "k", " ", "c", "o", "n", "f", "i", "g", "u", "r",
            "e", "d", " ", "s", "u", "c", "c", "e", "s", "s", "f", "u", "l", "l", "y">>,
      EventTypeIs |->
          <<"T", "h", "e", " ", "w", "e", "b", "h", "o", "o", "k", " ", "e", "v", "e", "n",
            "t", "_", "t", "y", "p", "e", ":", " ">>,
      DoesNotMatch |->
          <<" ", "d", "o", "e", "s", "n", "'", "t", " ", "m", "a", "t", "c", "h", " ", "l",
            "a", "m", "b", "d", "a", " ", "f", "u", "n", "c", "t", "i", "o", "n", "'", "s",
            " ", "e", "v", "e", "n", "t", " ", "t", "y", "p", "e", ":", " ">>,
      SignatureNotValid |->
          <<"S", "i", "g", "n", "a", "t", "u", "r", "e", " ", "i", "s", " ", "n", "o", "t",
            " ", "v", "a", "l", "i", "d">>,
      UnableToParse |->
          <<"U", "n", "a", "b", "l", "e", " ", "t", "o", " ", "p", "a", "r", "s", "e", " ",
            "w", "e", "b", "h", "o", "o", "k", " ", "p", "a", "y", "l", "o", "a", "d", ",",
            " ", "P", "l", "e", "a", "s", "e", " ", "v", "e", "r", "i", "f", "y", " ", "t",
            "h", "e", " ", "e", "n", "v", " ", "v", "a", "r", ":", " ", "C", "O", "D", "E",
            "B", "U", "I", "L", "D", "_", "E", "N", "V", "_", "V", "A", "R", "S", "_", "M",
            "A", "P">>,
      CodebuildStarted |->
          <<"C", "o", "d", "e", "b", "u", "i", "l", "d", " ", "s", "t", "a", "t", "e", "d",
            " ", "w", "i", "t", "h", " ", "a", "n", " ", "i", "d", ":", " ">>,
      JobWithId |->
          <<"C", "o", "d", "e", "B", "u", "i", "l", "d", " ", "j", "o", "b", " ", "w", "i",
            "t", "h", " ", "i", "d", ":", " ">>,
      SubmittedOk |->
          <<" ", "i", "s", " ", "s", "u", "b", "m", "i", "t", "t", "e", "d", " ", "s", "u",
            "c", "c", "e", "s", "s", "f", "u", "l", "l", "y", ".">>,
      SubmissionFailed |->
          <<"B", "u", "i", "l", "d", " ", "j", "o", "b", " ", "s", "u", "b", "m", "i", "s",
            "s", "i", "o", "n", " ", "h", "a", "s", " ", "f", "a", "i", "l", "e", "d", ":",
            " ">>,
      UnknownError |->
          <<"A", "n", " ", "u", "n", "k", "n", "o", "w", "n", " ", "e", "r", "r", "o", "r",
            " ", "h", "a", "s", " ", "o", "c", "c", "u", "r", "r", "e", "d", ".">>,
      ExpectsStatus |->
          <<"r", "e", "s", "p", "o", "n", "s", "e", "_", "t", "o", "_", "a", "p", "i", "_",
            "g", "w", "(", ")", " ", "e", "x", "p", "e", "c", "t", "s", " ", "a", "t", " ",
            "l", "e", "a", "s", "t", " ", "a", "r", "g", "u", "m", "e", "n", "t", " ", "s",
            "t", "a", "t", "u", "s", "_", "c", "o", "d", "e">>,
      ExpectsStatusDetail |->
          <<"r", "e", "s", "p", "o", "n", "s", "e", "_", "t", "o", "_", "a", "p", "i", "_",
            "g", "w", "(", ")", " ", "e", "x", "p", "e", "c", "t", "s", " ", "a", "t", " ",
            "l", "e", "a", "s", "t", " ", "a", "r", "g", "u", "m", "e", "n", "t", "s", " ",
            "s", "t", "a", "t", "u", "s", "_", "c", "o", "d", "e", " ", "a", "n", "d", " ",
            "d", "e", "t", "a", "i", "l">>,
      UnboundLocal |->
          <<"c", "a", "n", "n", "o", "t", " ", "a", "c", "c", "e", "s", "s", " ", "l", "o",
            "c", "a", "l", " ", "v", "a", "r", "i", "a", "b", "l", "e", " ">>,
      NotAssociated |->
          <<" ", "w", "h", "e", "r", "e", " ", "i", "t", " ", "i", "s", " ", "n", "o", "t",
            " ", "a", "s", "s", "o", "c", "i", "a", "t", "e", "d", " ", "w", "i", "t", "h",
            " ", "a", " ", "v", "a", "l", "u", "e">>,
      MissingAuth |->
          <<"i", "n", "v", "o", "k", "e", "_", "g", "i", "t", "_", "c", "a", "l", "l", "b",
            "a", "c", "k", "(", ")", " ", "m", "i", "s", "s", "i", "n", "g", " ", "1", " ",
            "r", "e", "q", "u", "i", "r", "e", "d", " ", "p", "o", "s", "i", "t", "i", "o",
            "n", "a", "l", " ", "a", "r", "g", "u", "m", "e", "n", "t", ":", " ", "'", "a",
            "u", "t", "h", "'">>,
      NoEncode |->
          <<"'", "N", "o", "n", "e", "T", "y", "p", "e", "'", " ", "o", "b", "j", "e", "c",
            "t", " ", "h", "a", "s", " ", "n", "o", " ", "a", "t", "t", "r", "i", "b", "u",
            "t", "e", " ", "'", "e", "n", "c", "o", "d", "e", "'">>,
      ListIndexOutOfRange |->
          <<"l", "i", "s", "t", " ", "i", "n", "d", "e", "x", " ", "o", "u", "t", " ", "o",
            "f", " ", "r", "a", "n", "g", "e">>,
      NotSerializable |->
          <<"O", "b", "j", "e", "c", "t", " ", "i", "s", " ", "n", "o", "t", " ", "J", "S",
            "O", "N", " ", "s", "e", "r", "i", "a", "l", "i", "z", "a", "b", "l", "e">>,
      ExpectedStr |->
          <<"e", "x", "p", "e", "c", "t", "e", "d", " ", "s", "t", "r", "i", "n", "g", " ",
            "o", "r", " ", "b", "y", "t", "e", "s", "-", "l", "i", "k", "e", " ", "o", "b",
            "j", "e", "c", "t">> ]

\* the names of the locals an UnboundLocalError may name
N ==
    [ e |->
          <<"e">>,
      event_type |->
          <<"e", "v", "e", "n", "t", "_", "t", "y", "p", "e">>,
      merged_env_vars |->
          <<"m", "e", "r", "g", "e", "d", "_", "e", "n", "v", "_", "v", "a", "r", "s">> ]

\* the texts json and repr write for None, True and False, and the messages of json.loads
T ==
    [ None |->
          <<"N", "o", "n", "e">>,
      True |->
          <<"T", "r", "u", "e">>,
      False |->
          <<"F", "a", "l", "s", "e">>,
      null |->
          <<"n", "u", "l", "l">>,
      true |->
          <<"t", "r", "u", "e">>,
      false |->
          <<"f", "a", "l", "s", "e">>,
      JSONDecodeError |->
          <<"E", "x", "p", "e", "c", "t", "i", "n", "g", " ", "v", "a", "l", "u", "e">>,
      JSONNotStr |->
          <<"t", "h", "e", " ", "J", "S", "O", "N", " ", "o", "b", "j", "e", "c", "t", " ",
            "m", "u", "s", "t", " ", "b", "e", " ", "s", "t", "r">> ]

\* the texts the inputs are made of: settings, header spellings, bodies, secrets and
\* the messages of the collaborators
Sample ==
    [ Push |->
          <<"P", "u", "s", "h">>,
      PUSH |->
          <<"P", "U", "S", "H">>,
      pr_opened |->
          <<"p", "r", ":", "o", "p", "e", "n", "e", "d">>,
      pull_request |->
          <<"p", "u", "l", "l", "_", "r", "e", "q", "u", "e", "s", "t">>,
      True |->
          <<"T", "r", "u", "e">>,
      false |->
          <<"f", "a", "l", "s", "e">>,
      project |->
          <<"p", "r", "o", "j", "e", "c", "t">>,
      url |->
          <<"h", "t", "t", "p", "s", ":", "/", "/", "e", "x", "a", "m", "p", "l", "e", "/">>,
      arn_user |->
          <<"a", "r", "n", ":", "u", "s", "e", "r">>,
      arn_token |->
          <<"a", "r", "n", ":", "t", "o", "k", "e", "n">>,
      arn_secret |->
          <<"a", "r", "n", ":", "s", "e", "c", "r", "e", "t">>,
      env_vars_map |->
          <<"{", "\"", "A", "\"", ":", "\"", "a", "\"", ",", "\"", "B", "\"", ":", "\"",
            "b", "\"", "}">>,
      callback_uri |->
          <<"h", "t", "t", "p", ":", "/", "/", "g", "i", "t", "/", "{", "{", "A", "}", "}",
            " ">>,
      callback_payload |->
          <<"{", "\"", "s", "t", "a", "t", "e", "\"", ":", "\"", "{", "{", "C", "O", "D",
            "E", "B", "U", "I", "L", "D", "_", "S", "T", "A", "T", "U", "S", "}", "}",
            "\"", ",", "\"", "k", "e", "y", "\"", ":", "\"", "{", "{", "B", "}", "}", "\"",
            ",", "\"", "d", "e", "s", "c", "r", "i", "p", "t", "i", "o", "n", "\"", ":",
            "\"", "{", "{", "C", "A", "L", "L", "B", "A", "C", "K", "_", "D", "E", "S",
            "C", "R", "I", "P", "T", "I", "O", "N", "}", "}", "\"", "}">>,
      USERVAR_X |->
          <<"U", "S", "E", "R", "V", "A", "R", "_", "X">>,
      x |->
          <<"x">>,
      INFO |->
          <<"I", "N", "F", "O">>,
      X_Event_Key |->
          <<"X", "-", "E", "v", "e", "n", "t", "-", "K", "e", "y">>,
      X_GitHub_Event |->
          <<"X", "-", "G", "i", "t", "H", "u", "b", "-", "E", "v", "e", "n", "t">>,
      X_Hub_Signature |->
          <<"X", "-", "H", "u", "b", "-", "S", "i", "g", "n", "a", "t", "u", "r", "e">>,
      sha256 |->
          <<"s", "h", "a", "2", "5", "6">>,
      Body_ab |->
          <<"{", "\"", "a", "c", "t", "i", "o", "n", "\"", ":", "\"", "P", "u", "s", "h",
            "\"", ",", "\"", "a", "\"", ":", "\"", "1", "\"", ",", "\"", "b", "\"", ":",
            "\"", "2", "\"", "}">>,
      Body_a |->
          <<"{", "\"", "a", "c", "t", "i", "o", "n", "\"", ":", "\"", "P", "u", "s", "h",
            "\"", ",", "\"", "a", "\"", ":", "\"", "1", "\"", "}">>,
      Body_b |->
          <<"{", "\"", "b", "\"", ":", "\"", "2", "\"", "}">>,
      Body_notjson |->
          <<"p", "a", "y", "l", "o", "a", "d", "=", "1">>,
      secret_k |->
          <<"k">>,
      secret_j |->
          <<"j">>,
      user |->
          <<"u", "s", "e", "r">>,
      token |->
          <<"t", "o", "k", "e", "n">>,
      build |->
          <<"b", "u", "i", "l", "d", ":">>,
      SecretsManagerError |->
          <<"S", "e", "c", "r", "e", "t", "s", " ", "M", "a", "n", "a", "g", "e", "r", " ",
            "c", "a", "n", "'", "t", " ", "f", "i", "n", "d", " ", "t", "h", "e", " ", "s",
            "p", "e", "c", "i", "f", "i", "e", "d", " ", "s", "e", "c", "r", "e", "t", ".">>,
      CodeBuildError |->
          <<"C", "o", "d", "e", "B", "u", "i", "l", "d", " ", "s", "t", "a", "r", "t", "_",
            "b", "u", "i", "l", "d", " ", "f", "a", "i", "l", "e", "d">>,
      ParamValidation |->
          <<"P", "a", "r", "a", "m", "e", "t", "e", "r", " ", "v", "a", "l", "i", "d", "a",
            "t", "i", "o", "n", " ", "f", "a", "i", "l", "e", "d">>,
      ConnectionError |->
          <<"C", "o", "n", "n", "e", "c", "t", "i", "o", "n", " ", "r", "e", "f", "u", "s",
            "e", "d">>,
      Body_opened |->
          <<"{", "\"", "a", "c", "t", "i", "o", "n", "\"", ":", "\"", "o", "p", "e", "n",
            "e", "d", "\"", ",", "\"", "a", "\"", ":", "\"", "1", "\"", ",", "\"", "b",
            "\"", ":", "\"", "2", "\"", "}">>,
      state |->
          <<"s", "t", "a", "t", "e">>,
      missing |->
          <<"m", "i", "s", "s", "i", "n", "g">>,
      list |->
          <<"l", "i", "s", "t">>,
      type |->
          <<"t", "y", "p", "e">>,
      top |->
          <<"t", "o", "p">>,
      old |->
          <<"o", "l", "d">>,
      A_1 |->
          <<"A", "_", "1">>,
      a_b |->
          <<"a", " ", "b">>,
      description |->
          <<"d", "e", "s", "c", "r", "i", "p", "t", "i", "o", "n">>,
      A |->
          <<"A">>,
      B |->
          <<"B">>,
      k_a |->
          <<"k", "=", "a">>,
      k_a_b |->
          <<"k", "=", "a", "=", "b">> ]

----------------------------------------------------------------------------
(* Python values *)

PyNone == [t |-> "None"]

PyStr(s) == [t |-> "str", v |-> s]

\* an int n is [t |-> "int", v |-> n], a bool [t |-> "bool", v |-> b], and a list
\* [t |-> "list", v |-> elems]

\* a dict keeps its keys in insertion order (k) beside the mapping (v)
PyDict(keys, map) == [t |-> "dict", k |-> keys, v |-> map]

EmptyDict == PyDict(<<>>, [x \in {} |-> PyNone])

\* an exception object: its class and the text str() gives
PyExc(class, text) == [t |-> "exc", class |-> class, v |-> text]

\* the outcome of a call: the value returned, or the exception raised
Return(value) == [ok |-> TRUE, v |-> value, exc |-> PyNone]

Raise(exception) == [ok |-> FALSE, v |-> PyNone, exc |-> exception]

\* d[key] = value on a dict: a new key goes last
DictSet(d, key, value) ==
    PyDict(IF key \in DOMAIN d.v THEN d.k ELSE Append(d.k, key),
           [x \in DOMAIN d.v \cup {key} |-> IF x = key THEN value ELSE d.v[x]])

\* d.get(key) on a dict
DictGet(d, key) == IF key \in DOMAIN d.v THEN d.v[key] ELSE PyNone

\* key in d
HasKey(d, key) == key \in DOMAIN d.v

\* {**a, **b}: the keys of a, then those of b that a has not
DictMerge(a, b) ==
    PyDict(a.k \o SelectSeq(b.k, LAMBDA key : key \notin DOMAIN a.v),
           [x \in DOMAIN a.v \cup DOMAIN b.v |-> IF x \in DOMAIN b.v THEN b.v[x] ELSE a.v[x]])

\* a == b of Python, for the values of the model
PyEq(a, b) ==
    IF a.t # b.t THEN FALSE
    ELSE IF a.t = "None" THEN TRUE
    ELSE a.v = b.v

\* bool(x): the truth value Python gives x
Truthy(x) ==
    CASE x.t = "None" -> FALSE
      [] x.t = "str" -> x.v # <<>>
      [] x.t = "int" -> x.v # 0
      [] x.t = "bool" -> x.v
      [] x.t = "list" -> x.v # <<>>
      [] x.t = "dict" -> x.k # <<>>
      [] OTHER -> TRUE

\* repr(x); a str is put in single quotes
RECURSIVE PyRepr(_), ReprElems(_), ReprItems(_, _)
PyRepr(x) ==
    CASE x.t = "None" -> T.None
      [] x.t = "str" -> <<"'">> \o x.v \o <<"'">>
      [] x.t = "int" -> IntToText(x.v)
      [] x.t = "bool" -> IF x.v THEN T.True ELSE T.False
      [] x.t = "list" -> <<"[">> \o Join(ReprElems(x.v), <<",", " ">>) \o <<"]">>
      [] x.t = "dict" -> <<"{">> \o Join(ReprItems(x.k, x.v), <<",", " ">>) \o <<"}">>
      [] OTHER -> x.v

ReprElems(elems) ==
    IF elems = <<>> THEN <<>> ELSE <<PyRepr(Head(elems))>> \o ReprElems(Tail(elems))

ReprItems(keys, map) ==
    IF keys = <<>> THEN <<>>
    ELSE <<<<"'">> \o Head(keys) \o <<"'", ":", " ">> \o PyRepr(map[Head(keys)])>>
         \o ReprItems(Tail(keys), map)

\* str(x)
PyStrOf(x) == IF x.t \in {"str", "exc"} THEN x.v ELSE PyRepr(x)

----------------------------------------------------------------------------
(* json.loads and json.dumps, on texts of objects, arrays, strings, natural *)
(* numbers, null, true and false                                           *)

Quote == "\""

Backslash == "\\"

ParseFail == [ok |-> FALSE, v |-> PyNone, p |-> 0]

ParseOk(value, next) == [ok |-> TRUE, v |-> value, p |-> next]

\* the first position >= p that holds no blank
SkipBlanks(s, p) == RunEnd(s, {" "}, p)

\* the characters of a string literal up to its closing quote, from p; k is the
\* position of the next quote or backslash
RECURSIVE ScanString(_, _, _), ScanStringAt(_, _, _, _)
ScanString(s, p, acc) == ScanStringAt(s, p, acc, IndexOfAny(s, {Quote, Backslash}, p))

ScanStringAt(s, p, acc, k) ==
    IF k = 0 THEN ParseFail
    ELSE IF s[k] = Quote THEN ParseOk(acc \o SubSeq(s, p, k - 1), k + 1)
    ELSE IF k + 1 <= Len(s) /\ s[k + 1] \in {Quote, Backslash, "/"}
         THEN ScanString(s, k + 2, acc \o SubSeq(s, p, k - 1) \o <<s[k + 1]>>)
    ELSE ParseFail

\* a string literal scanned, as a value
StringValue(scanned) ==
    IF scanned.ok THEN ParseOk(PyStr(scanned.v), scanned.p) ELSE ParseFail

\* the digits from p up to q: no leading zero
NumberValue(s, p, q) ==
    IF q > p + 1 /\ s[p] = "0" THEN ParseFail
    ELSE ParseOk([t |-> "int", v |-> TextToInt(SubSeq(s, p, q - 1))], q)

RECURSIVE ParseValue(_, _), ParseValueAt(_, _), ParseObject(_, _), ParseMembers(_, _, _),
          MemberKey(_, _, _), MemberColon(_, _, _, _), MemberValue(_, _, _, _),
          MemberEnd(_, _, _), ParseArray(_, _), ParseElements(_, _, _), ElementEnd(_, _, _)
ParseValue(s, p0) == ParseValueAt(s, SkipBlanks(s, p0))

ParseValueAt(s, p) ==
    IF p > Len(s) THEN ParseFail
    ELSE IF s[p] = Quote THEN StringValue(ScanString(s, p + 1, <<>>))
    ELSE IF s[p] = "{" THEN ParseObject(s, SkipBlanks(s, p + 1))
    ELSE IF s[p] = "[" THEN ParseArray(s, SkipBlanks(s, p + 1))
    ELSE IF s[p] \in Range(DigitChars) THEN NumberValue(s, p, RunEnd(s, Range(DigitChars), p))
    ELSE IF HasWordAt(s, p, T.null) THEN ParseOk(PyNone, p + Len(T.null))
    ELSE IF HasWordAt(s, p, T.true) THEN ParseOk([t |-> "bool", v |-> TRUE], p + Len(T.true))
    ELSE IF HasWordAt(s, p, T.false) THEN ParseOk([t |-> "bool", v |-> FALSE], p + Len(T.false))
    ELSE ParseFail

ParseObject(s, q) ==
    IF q <= Len(s) /\ s[q] = "}" THEN ParseOk(EmptyDict, q + 1)
    ELSE ParseMembers(s, q, EmptyDict)

\* "key": value pairs up to the closing brace; a repeated key keeps its last value
ParseMembers(s, p, acc) ==
    IF p > Len(s) \/ s[p] # Quote THEN ParseFail
    ELSE MemberKey(s, ScanString(s, p + 1, <<>>), acc)

MemberKey(s, key, acc) ==
    IF ~key.ok THEN ParseFail ELSE MemberColon(s, key.v, SkipBlanks(s, key.p), acc)

MemberColon(s, name, c, acc) ==
    IF c > Len(s) \/ s[c] # ":" THEN ParseFail
    ELSE MemberValue(s, name, ParseValue(s, c + 1), acc)

MemberValue(s, name, val, acc) ==
    IF ~val.ok THEN ParseFail
    ELSE MemberEnd(s, SkipBlanks(s, val.p), DictSet(acc, name, val.v))

MemberEnd(s, e, d) ==
    IF e > Len(s) THEN ParseFail
    ELSE IF s[e] = "}" THEN ParseOk(d, e + 1)
    ELSE IF s[e] = "," THEN ParseMembers(s, SkipBlanks(s, e + 1), d)
    ELSE ParseFail

ParseArray(s, q) ==
    IF q <= Len(s) /\ s[q] = "]" THEN ParseOk([t |-> "list", v |-> <<>>], q + 1)
    ELSE ParseElements(s, q, <<>>)

\* the values up to the closing bracket
ParseElements(s, p, acc) == ElementEnd(s, ParseValue(s, p), acc)

ElementEnd(s, val, acc) ==
    IF ~val.ok \/ SkipBlanks(s, val.p) > Len(s) THEN ParseFail
    ELSE IF s[SkipBlanks(s, val.p)] = "]"
         THEN ParseOk([t |-> "list", v |-> Append(acc, val.v)], SkipBlanks(s, val.p) + 1)
    ELSE IF s[SkipBlanks(s, val.p)] = ","
         THEN ParseElements(s, SkipBlanks(s, val.p) + 1, Append(acc, val.v))
    ELSE ParseFail

\* the whole text must be one value
WholeText(text, parsed) ==
    IF parsed.ok /\ SkipBlanks(text, parsed.p) = Len(text) + 1
    THEN Return(parsed.v)
    ELSE Raise(PyExc("JSONDecodeError", T.JSONDecodeError))

\* json.loads(x)
JsonLoads(x) ==
    IF x.t # "str" THEN Raise(PyExc("TypeError", T.JSONNotStr))
    ELSE WholeText(x.v, ParseValue(x.v, 1))

\* the characters of s as json.dumps writes them inside a string literal; k is
\* the position of the first quote or backslash
RECURSIVE EscapeText(_), EscapeAt(_, _)
EscapeText(s) == EscapeAt(s, IndexOfAny(s, {Quote, Backslash}, 1))

EscapeAt(s, k) ==
    IF k = 0 THEN s
    ELSE SubSeq(s, 1, k - 1) \o <<Backslash, s[k]>> \o EscapeText(SubSeq(s, k + 1, Len(s)))

\* whether json.dumps can write x: an exception object is not serializable
RECURSIVE Serializable(_)
Serializable(x) ==
    CASE x.t \in {"None", "str", "int", "bool"} -> TRUE
      [] x.t = "list" -> \A i \in 1..Len(x.v) : Serializable(x.v[i])
      [] x.t = "dict" -> \A key \in DOMAIN x.v : Serializable(x.v[key])
      [] OTHER -> FALSE

\* json.dumps(x) with the default separators, for a serializable x
RECURSIVE JsonText(_), JsonElems(_), JsonItems(_, _)
JsonText(x) ==
    CASE x.t = "None" -> T.null
      [] x.t = "str" -> <<Quote>> \o EscapeText(x.v) \o <<Quote>>
      [] x.t = "int" -> IntToText(x.v)
      [] x.t = "bool" -> IF x.v THEN T.true ELSE T.false
      [] x.t = "list" -> <<"[">> \o Join(JsonElems(x.v), <<",", " ">>) \o <<"]">>
      [] x.t = "dict" -> <<"{">> \o Join(JsonItems(x.k, x.v), <<",", " ">>) \o <<"}">>

JsonElems(elems) ==
    IF elems = <<>> THEN <<>> ELSE <<JsonText(Head(elems))>> \o JsonElems(Tail(elems))

JsonItems(keys, map) ==
    IF keys = <<>> THEN <<>>
    ELSE <<<<Quote>> \o EscapeText(Head(keys)) \o <<Quote, ":", " ">> \o JsonText(map[Head(keys)])>>
         \o JsonItems(Tail(keys), map)

----------------------------------------------------------------------------
(* The path language: parse_filter_condition and get_value_from_dict *)

\* x[key] for a str key
Subscript(x, key) ==
    CASE x.t = "dict" ->
            IF key \in DOMAIN x.v THEN Return(x.v[key])
            ELSE Raise(PyExc("KeyError", <<"'">> \o key \o <<"'">>))
      [] x.t \in {"list", "str"} -> Raise(PyExc("TypeError", M.IndicesMustBeIntegers))
      [] OTHER -> Raise(PyExc("TypeError", M.NotSubscriptable))

\* x[index] for an int index, counted from 0
SubscriptIndex(x, index) ==
    CASE x.t = "list" ->
            IF index < Len(x.v) THEN Return(x.v[index + 1])
            ELSE Raise(PyExc("IndexError", M.IndexOutOfRange))
      [] x.t = "str" ->
            IF index < Len(x.v) THEN Return(PyStr(<<x.v[index + 1]>>))
            ELSE Raise(PyExc("IndexError", M.IndexOutOfRange))
      [] x.t = "dict" -> Raise(PyExc("KeyError", IntToText(index)))
      [] OTHER -> Raise(PyExc("TypeError", M.NotSubscriptable))

\* re.findall(r'\[(.*?)\]', s): for each "[" that a "]" follows, leftmost first,
\* the text up to the nearest "]", the search going on after that "]"
RECURSIVE FindBracketed(_), FindClose(_, _), Bracketed(_, _, _)
FindBracketed(s) == FindClose(s, IndexOfAny(s, {"["}, 1))

FindClose(s, open) ==
    IF open = 0 THEN <<>> ELSE Bracketed(s, open, IndexOfAny(s, {"]"}, open + 1))

Bracketed(s, open, close) ==
    IF close = 0 THEN <<>>
    ELSE <<SubSeq(s, open + 1, close - 1)>> \o FindBracketed(SubSeq(s, close + 1, Len(s)))

\* search_key, search_value = matches[0].split('=')
UnpackPair(parts) ==
    IF Len(parts) = 2 THEN Return(parts)
    ELSE IF Len(parts) < 2 THEN Raise(PyExc("ValueError", M.NotEnoughValues))
    ELSE Raise(PyExc("ValueError", M.TooManyValues))

\* the body of parse_filter_condition, given what re.findall found
FilterOf(filter_condition, matches) ==
    IF Len(matches) = 1 THEN UnpackPair(Split(matches[1], "="))
    ELSE Raise(PyExc("TypeError", M.InvalidKey \o filter_condition))

\* parse_filter_condition: the pair <<search_key, search_value>>
parse_filter_condition(filter_condition) ==
    FilterOf(filter_condition, FindBracketed(filter_condition))

\* dictionary = dictionary[current_key][index]
PickMatch(at, index) == IF at.ok THEN SubscriptIndex(at.v, index) ELSE at

\* the loop over the list of a filtered segment: every element is visited, and on
\* each match the cursor becomes cursor[current_key][index]
RECURSIVE FilterLoop(_, _, _, _, _, _), FilterField(_, _, _, _, _, _, _),
          FilterPicked(_, _, _, _, _, _)
FilterLoop(elems, index, cursor, current_key, search_key, search_value) ==
    IF index >= Len(elems) THEN Return(cursor)
    ELSE FilterField(Subscript(elems[index + 1], search_key), elems, index, cursor,
                     current_key, search_key, search_value)

FilterField(field, elems, index, cursor, current_key, search_key, search_value) ==
    IF ~field.ok THEN field
    ELSE IF PyEq(field.v, PyStr(search_value))
         THEN FilterPicked(PickMatch(Subscript(cursor, current_key), index), elems, index,
                           current_key, search_key, search_value)
    ELSE FilterLoop(elems, index + 1, cursor, current_key, search_key, search_value)

FilterPicked(picked, elems, index, current_key, search_key, search_value) ==
    IF ~picked.ok THEN picked
    ELSE FilterLoop(elems, index + 1, picked.v, current_key, search_key, search_value)

\* the filter of a segment applied to the list found under current_key
FilterWith(cond, elems, cursor, current_key) ==
    IF ~cond.ok THEN cond
    ELSE FilterLoop(elems, 0, cursor, current_key, cond.v[1], cond.v[2])

\* a segment with a filter, given current_key and dictionary[current_key]
FilteredSegment(at, cursor, key, current_key, json_path) ==
    IF ~at.ok THEN at
    ELSE IF at.v.t # "list"
         THEN Raise(PyExc("TypeError", M.NoListFound \o key \o M.InPath \o json_path))
    ELSE FilterWith(parse_filter_condition(key), at.v.v, cursor, current_key)

\* a variant of ResolveSegment that gives None for what it does not find, as
\* dict.get does: C18 fails with it
GetSegment(cursor, key, json_path) ==
    IF cursor.t = "dict" THEN Return(DictGet(cursor, key)) ELSE Return(PyNone)

\* one round of the loop over the segments of the path
ResolveSegment(cursor, key, json_path) ==
    IF IndexOfAny(key, {"["}, 1) # 0
    THEN FilteredSegment(Subscript(cursor, Split(key, "[")[1]), cursor, key,
                         Split(key, "[")[1], json_path)
    ELSE IF cursor.t = "dict"
         THEN IF key \in DOMAIN cursor.v THEN Return(cursor.v[key])
              ELSE Raise(PyExc("TypeError",
                               M.KeyPrefix \o key \o M.InPath \o json_path \o M.NotFoundInDict))
    ELSE Raise(PyExc("TypeError", M.NoObjectFound \o key \o M.InPath \o json_path))

RECURSIVE ResolveFrom(_, _, _), ResolveNext(_, _, _)
ResolveFrom(cursor, keys, json_path) ==
    IF keys = <<>> THEN Return(cursor)
    ELSE ResolveNext(ResolveSegment(cursor, Head(keys), json_path), Tail(keys), json_path)

\* a variant of ResolveNext that stops after the first segment: C17 fails with it
ResolveFirstOnly(step, keys, json_path) == step

ResolveNext(step, keys, json_path) ==
    IF ~step.ok THEN step ELSE ResolveFrom(step.v, keys, json_path)

get_value_from_dict(dictionary, json_path) ==
    ResolveFrom(dictionary, Split(json_path, "."), json_path)

----------------------------------------------------------------------------
(* The functions lambda_handler calls *)

mandatory_environment_vars ==
    <<K.CODEBUILD_PROJECT_NAME, K.CODEBUILD_ENV_VARS_MAP, K.CODEBUILD_URL,
      K.GIT_SERVER_URL, K.GIT_USERNAME_SM_ARN, K.GIT_TOKEN_SM_ARN,
      K.WEBHOOK_EVENT_TYPE, K.VALIDATE_DIGITAL_SIGNATURE>>

\* the loop of validate_lambda_env_vars over env_vars.items()
RECURSIVE ValidationErrors(_, _)
ValidationErrors(keys, env_vars) ==
    IF keys = <<>> THEN <<>>
    ELSE (IF Head(keys) \in Range(mandatory_environment_vars)
             /\ ~Truthy(env_vars.v[Head(keys)])
          THEN <<M.Variable \o Head(keys) \o M.MustNotBeEmpty>>
          ELSE <<>>)
         \o ValidationErrors(Tail(keys), env_vars)

\* return valid, " ".join(validation_errors)
Validity(validation_errors) ==
    [valid |-> validation_errors = <<>>, message |-> Join(validation_errors, <<" ">>)]

validate_lambda_env_vars(env_vars) == Validity(ValidationErrors(env_vars.k, env_vars))

ResponseHeaders ==
    PyDict(<<H.ContentType, H.AllowOrigin, H.AllowMethods, H.AllowHeaders>>,
           [h \in {H.ContentType, H.AllowOrigin, H.AllowMethods, H.AllowHeaders} |->
               IF h = H.ContentType THEN PyStr(H.ApplicationJson)
               ELSE IF h = H.AllowOrigin THEN PyStr(H.Star)
               ELSE IF h = H.AllowMethods THEN PyStr(H.PostGet)
               ELSE PyStr(H.AllowedHeaders)])

\* a variant of ResponseBody that takes 300 for a success: C10 fails with it
ResponseBodyUpTo300(status_code, detail) ==
    DictSet(DictSet(EmptyDict, K.statusCode, [t |-> "int", v |-> status_code]),
            IF 200 <= status_code /\ status_code <= 300 THEN K.message ELSE K.fault,
            detail)

\* the body dict of prepare_response
ResponseBody(status_code, detail) ==
    DictSet(DictSet(EmptyDict, K.statusCode, [t |-> "int", v |-> status_code]),
            IF 200 <= status_code /\ status_code < 300 THEN K.message ELSE K.fault,
            detail)

\* the response dict of prepare_response around body
ResponseOf(status_code, body) ==
    IF ~Serializable(body) THEN Raise(PyExc("TypeError", M.NotSerializable))
    ELSE Return([statusCode |-> status_code,
                 body |-> JsonText(body),
                 headers |-> ResponseHeaders])

\* prepare_response(status_code, detail): the response, or the exception raised
prepare_response(status_code, detail) ==
    IF status_code = 0 THEN Raise(PyExc("TypeError", M.ExpectsStatus))
    ELSE IF status_code # 200 /\ ~Truthy(detail)
         THEN Raise(PyExc("TypeError", M.ExpectsStatusDetail))
    ELSE ResponseOf(status_code, ResponseBody(status_code, detail))

\* hmac.new(key, msg, hashlib.sha256).hexdigest(), modelled by a keyed checksum
\* written as two lower-case hexadecimal digits
CodeChars ==
    LowerChars \o UpperChars \o DigitChars
    \o <<"{", "}", "[", "]", Quote, ":", ",", "=", ".", "_", "-", "/", " ">>

HexChars ==
    <<"0", "1", "2", "3", "4", "5", "6", "7", "8", "9", "a", "b", "c", "d", "e", "f">>

CharCode(c) ==
    IF \E k \in 1..Len(CodeChars) : CodeChars[k] = c
    THEN CHOOSE k \in 1..Len(CodeChars) : CodeChars[k] = c
    ELSE 0

\* the sum over the positions lo..hi of s of the character's code, weighted by
\* its position
RECURSIVE Checksum(_, _, _)
Checksum(s, lo, hi) ==
    IF lo > hi THEN 0
    ELSE IF lo = hi THEN ((2 * lo + 1) * CharCode(s[lo])) % 256
    ELSE (Checksum(s, lo, (lo + hi) \div 2) + Checksum(s, ((lo + hi) \div 2) + 1, hi)) % 256

HexByte(h) == <<HexChars[(h \div 16) + 1], HexChars[(h % 16) + 1]>>

HmacSha256Hex(key, msg) ==
    HexByte((37 * Checksum(key, 1, Len(key)) + Checksum(msg, 1, Len(msg)) + Len(msg)) % 256)

\* a variant of CompareDigest that compares signature_hash[0]: C5 fails with it
CompareAlgorithm(signature_hash, digest) ==
    IF Len(signature_hash) < 2 THEN Raise(PyExc("IndexError", M.ListIndexOutOfRange))
    ELSE Return([t |-> "bool", v |-> signature_hash[1] = digest])

\* signature_hash[1] == digest
CompareDigest(signature_hash, digest) ==
    IF Len(signature_hash) < 2 THEN Raise(PyExc("IndexError", M.ListIndexOutOfRange))
    ELSE Return([t |-> "bool", v |-> signature_hash[2] = digest])

\* check_signature(signing_secret, signature, body): True or False, or the
\* exception raised
check_signature(signing_secret, signature, body) ==
    IF signing_secret.t # "str" THEN Raise(PyExc("AttributeError", M.NoEncode))
    ELSE CompareDigest(Split(signature.v, "="), HmacSha256Hex(signing_secret.v, body.v))

\* get_value_from_dict(body, json_path) for a json_path of the map
LookUp(body, json_path) ==
    IF json_path.t = "str" THEN get_value_from_dict(body, json_path.v)
    ELSE Raise(PyExc("AttributeError", <<>>))

\* the first loop of prepare_codebuild_inputs: [ok, vars], vars holding what was
\* set before a lookup raised
RECURSIVE MapPaths(_, _, _, _), MapNext(_, _, _, _, _)
MapPaths(body, names, env_vars_dict, code_build_env_vars) ==
    IF names = <<>> THEN [ok |-> TRUE, vars |-> code_build_env_vars]
    ELSE MapNext(LookUp(body, env_vars_dict.v[Head(names)]), body, names, env_vars_dict,
                 code_build_env_vars)

MapNext(found, body, names, env_vars_dict, code_build_env_vars) ==
    IF ~found.ok THEN [ok |-> FALSE, vars |-> code_build_env_vars]
    ELSE MapPaths(body, Tail(names), env_vars_dict,
                  DictSet(code_build_env_vars, Head(names), found.v))

\* the second loop of prepare_codebuild_inputs, over os.environ.items()
RECURSIVE PassThrough(_, _, _)
PassThrough(keys, os_environ, code_build_env_vars) ==
    IF keys = <<>> THEN code_build_env_vars
    ELSE PassThrough(Tail(keys), os_environ,
                     IF HasWordAt(Head(keys), 1, K.USERVAR_) \/ HasWordAt(Head(keys), 1, K.GIT_)
                     THEN DictSet(code_build_env_vars, Head(keys), os_environ.v[Head(keys)])
                     ELSE code_build_env_vars)

\* the end of the try block of prepare_codebuild_inputs, given the first loop
AfterMapPaths(mapped, os_environ) ==
    IF ~mapped.ok THEN mapped.vars
    ELSE PassThrough(os_environ.k, os_environ, mapped.vars)

\* the try block of prepare_codebuild_inputs, given env_vars_dict
InputsFrom(loaded, body, os_environ) ==
    IF ~loaded.ok \/ loaded.v.t # "dict" THEN EmptyDict
    ELSE AfterMapPaths(MapPaths(body, loaded.v.k, loaded.v, EmptyDict), os_environ)

\* a variant of prepare_codebuild_inputs that passes through the settings of
\* lambda_env_vars and not those of os.environ: C22 fails with it
PrepareFromLocalCopy(body, lambda_env_vars, os_environ) ==
    InputsFrom(JsonLoads(DictGet(lambda_env_vars, K.CODEBUILD_ENV_VARS_MAP)), body,
               lambda_env_vars)

\* prepare_codebuild_inputs(body, lambda_env_vars), reading os.environ: whatever
\* raises inside is logged, and the dict as filled so far is returned
prepare_codebuild_inputs(body, lambda_env_vars, os_environ) ==
    InputsFrom(JsonLoads(DictGet(lambda_env_vars, K.CODEBUILD_ENV_VARS_MAP)), body, os_environ)

\* the pattern \{\{(\w+)\}\} matches at position p: the run of \w characters
\* after the braces is not empty and the closing braces follow it
PlaceholderAt(s, p) ==
    /\ HasWordAt(s, p, <<"{", "{">>)
    /\ RunEnd(s, WordChars, p + 2) > p + 2
    /\ HasWordAt(s, RunEnd(s, WordChars, p + 2), <<"}", "}">>)

\* re.sub(pattern, lambda match: str(variables.get(match.group(1))), s) from p on:
\* every match replaced, leftmost first; k is the leftmost match and w the end of
\* its name
RECURSIVE RenderFrom(_, _, _), RenderMatch(_, _, _, _), RenderName(_, _, _, _, _)
RenderFrom(s, p, variables) ==
    IF \E k \in p..Len(s) : PlaceholderAt(s, k)
    THEN RenderMatch(s, p, variables,
                     CHOOSE k \in p..Len(s) :
                         PlaceholderAt(s, k) /\ \A j \in p..(k - 1) : ~PlaceholderAt(s, j))
    ELSE SubSeq(s, p, Len(s))

RenderMatch(s, p, variables, k) == RenderName(s, p, variables, k, RunEnd(s, WordChars, k + 2))

\* a variant of RenderName that puts nothing for a name the variables lack: C16
\* fails with it
RenderNameOrNothing(s, p, variables, k, w) ==
    SubSeq(s, p, k - 1)
    \o (IF HasKey(variables, SubSeq(s, k + 2, w - 1))
        THEN PyStrOf(DictGet(variables, SubSeq(s, k + 2, w - 1)))
        ELSE <<>>)
    \o RenderFrom(s, w + 2, variables)

RenderName(s, p, variables, k, w) ==
    SubSeq(s, p, k - 1)
    \o PyStrOf(DictGet(variables, SubSeq(s, k + 2, w - 1)))
    \o RenderFrom(s, w + 2, variables)

UnboundLocalError(name) ==
    PyExc("UnboundLocalError", M.UnboundLocal \o <<"'">> \o name \o <<"'">> \o M.NotAssociated)

\* the request of line 234, given the payload of line 229
PostRequest(post_url, post_payload, auth) ==
    IF ~post_payload.ok THEN [do |-> "raise", exc |-> post_payload.exc]
    ELSE [do |-> "post", url |-> post_url, json |-> post_payload.v, auth |-> auth]

\* a variant of invoke_git_callback that has a request to send whatever the
\* settings: C11 fails with it
AlwaysPost(merged_env_vars, auth) ==
    PostRequest(PyStrOf(DictGet(merged_env_vars, K.GIT_CALLBACK_URI)), Return(EmptyDict), auth)

\* a variant of invoke_git_callback that sends an empty payload where none is
\* configured: C12 fails with it
PayloadOptional(merged_env_vars, auth) ==
    IF ~Truthy(DictGet(merged_env_vars, K.GIT_CALLBACK_URI))
    THEN [do |-> "return", status |-> 200]
    ELSE PostRequest(PyStrOf(DictGet(merged_env_vars, K.GIT_CALLBACK_URI)), Return(EmptyDict),
                     auth)

\* invoke_git_callback(merged_env_vars, auth) up to its requests.post: it returns
\* 200 without a POST, raises, or has a request to send
invoke_git_callback(merged_env_vars, auth) ==
    IF ~Truthy(DictGet(merged_env_vars, K.GIT_CALLBACK_URI))
    THEN [do |-> "return", status |-> 200]
    ELSE IF ~HasKey(merged_env_vars, K.GIT_CALLBACK_PAYLOAD)
         THEN [do |-> "raise", exc |-> UnboundLocalError(N.e)]
    ELSE IF merged_env_vars.v[K.GIT_CALLBACK_URI].t # "str"
            \/ merged_env_vars.v[K.GIT_CALLBACK_PAYLOAD].t # "str"
         THEN [do |-> "raise", exc |-> PyExc("TypeError", M.ExpectedStr)]
    ELSE PostRequest(RStrip(RenderFrom(merged_env_vars.v[K.GIT_CALLBACK_URI].v, 1,
                                       merged_env_vars)),
                     JsonLoads(PyStr(RenderFrom(merged_env_vars.v[K.GIT_CALLBACK_PAYLOAD].v, 1,
                                                merged_env_vars))),
                     auth)

----------------------------------------------------------------------------
(* The inputs: the environment of the function and the event of an          *)
(* invocation, and what the collaborators may answer                        *)

\* the number of mandatory settings an environment leaves unset
MaxUnset == 1

Invocations == {1, 2}

RECURSIVE DictOfPairs(_)
DictOfPairs(pairs) ==
    IF pairs = <<>> THEN EmptyDict
    ELSE DictSet(DictOfPairs(SubSeq(pairs, 1, Len(pairs) - 1)),
                 pairs[Len(pairs)][1], PyStr(pairs[Len(pairs)][2]))

\* the pairs without those of the names in unset, or with them set to ""
RECURSIVE Unset(_, _, _)
Unset(pairs, unset, asEmpty) ==
    IF pairs = <<>> THEN <<>>
    ELSE (IF Head(pairs)[1] \notin unset THEN <<Head(pairs)>>
          ELSE IF asEmpty THEN <<<<Head(pairs)[1], <<>>>>>>
          ELSE <<>>)
         \o Unset(Tail(pairs), unset, asEmpty)

\* the settings of the callback: none, an empty address, an address without a
\* payload, and both
CallbackSettings ==
    { <<>>,
      <<<<K.GIT_CALLBACK_URI, <<>>>>>>,
      <<<<K.GIT_CALLBACK_URI, Sample.callback_uri>>>>,
      <<<<K.GIT_CALLBACK_URI, Sample.callback_uri>>, <<K.GIT_CALLBACK_PAYLOAD, Sample.callback_payload>>>> }

SettingPairs(validate, callback) ==
    << <<K.LOGGING_LEVEL, Sample.INFO>>,
       <<K.CODEBUILD_PROJECT_NAME, Sample.project>>,
       <<K.CODEBUILD_ENV_VARS_MAP, Sample.env_vars_map>>,
       <<K.CODEBUILD_URL, Sample.url>>,
       <<K.GIT_SERVER_URL, Sample.url>>,
       <<K.GIT_USERNAME_SM_ARN, Sample.arn_user>>,
       <<K.GIT_TOKEN_SM_ARN, Sample.arn_token>>,
       <<K.GIT_SECRET_SM_ARN, Sample.arn_secret>>,
       <<K.WEBHOOK_EVENT_TYPE, Sample.Push>>,
       <<K.VALIDATE_DIGITAL_SIGNATURE, validate>>,
       <<Sample.USERVAR_X, Sample.x>> >> \o callback

\* os.environ of the function: the settings, some mandatory ones left out or empty
Environments ==
    { DictOfPairs(Unset(SettingPairs(validate, callback), unset, asEmpty)) :
        validate \in {Sample.True, Sample.false},
        callback \in CallbackSettings,
        unset \in {u \in SUBSET Range(mandatory_environment_vars) : Cardinality(u) <= MaxUnset},
        asEmpty \in BOOLEAN }

\* the headers that tell the event type, as the sender spells them
EventHeaders ==
    { <<>>,
      <<<<Sample.X_Event_Key, Sample.PUSH>>>>,
      <<<<Sample.X_Event_Key, Sample.pr_opened>>>>,
      <<<<Sample.X_Event_Key, V.diagnostics_ping>>>>,
      <<<<Sample.X_GitHub_Event, V.ping>>>>,
      <<<<Sample.X_GitHub_Event, Sample.pull_request>>>>,
      <<<<Sample.X_Event_Key, Sample.PUSH>>, <<Sample.X_GitHub_Event, V.ping>>>> }

\* the X-Hub-Signature headers a sender may put on a body, given its digest under
\* a secret and the digest of another text: none, the digest, the digest in upper
\* case, the other digest, the digest with no algorithm in front, and the digest
\* followed by more text
SignatureHeadersOf(digest, other) ==
    { <<>>,
      <<<<Sample.X_Hub_Signature, Sample.sha256 \o <<"=">> \o digest>>>>,
      <<<<Sample.X_Hub_Signature, Sample.sha256 \o <<"=">> \o Upper(digest)>>>>,
      <<<<Sample.X_Hub_Signature, Sample.sha256 \o <<"=">> \o other>>>>,
      <<<<Sample.X_Hub_Signature, digest>>>>,
      <<<<Sample.X_Hub_Signature, Sample.sha256 \o <<"=">> \o digest \o <<"=">> \o Sample.x>>>> }

SignatureHeaders(body) ==
    SignatureHeadersOf(HmacSha256Hex(Sample.secret_k, body),
                       HmacSha256Hex(Sample.secret_k, body \o <<" ">>))

\* the event API Gateway hands to lambda_handler
EventsWith(body) ==
    { [body |-> PyStr(body), headers |-> DictOfPairs(eventHeader \o signatureHeader)] :
        eventHeader \in EventHeaders, signatureHeader \in SignatureHeaders(body) }

Events == UNION {EventsWith(body) : body \in {Sample.Body_ab, Sample.Body_a, Sample.Body_b, Sample.Body_opened, Sample.Body_notjson}}

\* what secrets_manager.get_secret_value(...).get('SecretString') may give where
\* the secret holds one of the texts: the call raises, or gives a text; a secret
\* with no text gives None
SecretAnswers(texts, mayBeNone) ==
    {Raise(PyExc("ClientError", Sample.SecretsManagerError))}
    \cup {Return(PyStr(text)) : text \in texts}
    \cup (IF mayBeNone THEN {Return(PyNone)} ELSE {})

\* the status codes the git server may answer a callback with
CallbackStatuses == {200, 204, 299, 300, 404, 500}

----------------------------------------------------------------------------
(* The state: one process environment and the collaborators' record of the  *)
(* calls made to them, and per invocation of lambda_handler the event, the  *)
(* position in the handler, its local variables and how it ended.  Log       *)
(* entries are not kept.                                                    *)

VARIABLES
    os_environ,   \* os.environ
    calls,        \* the calls made to Secrets Manager, CodeBuild and the git server, in order
    event,        \* event[i]: the event of invocation i
    pc,           \* pc[i]: where invocation i is in lambda_handler
    frame,        \* frame[i]: the local variables of invocation i
    result        \* result[i]: the response returned, or the exception that left the handler

vars == <<os_environ, calls, event, pc, frame, result>>

\* the locals before the first statement; bound holds the names, among event_type,
\* merged_env_vars and e, that are bound
NewFrame ==
    [lambda_env_vars |-> EmptyDict,
     event_body |-> PyNone,
     normalized_headers |-> EmptyDict,
     event_type |-> PyNone,
     env_vars |-> EmptyDict,
     git_secret |-> PyNone,
     codebuild_id |-> PyNone,
     git_username |-> PyNone,
     git_token |-> PyNone,
     merged_env_vars |-> EmptyDict,
     status |-> 0,
     e |-> PyNone,
     bound |-> {}]

NoResult == [kind |-> "none"]

Returned(response) == [kind |-> "returned", response |-> response]

Raised(exception) == [kind |-> "raised", exc |-> exception]

\* invocation 1 has been delivered an event; no event is delivered to the other
Init ==
    /\ os_environ \in Environments
    /\ calls = <<>>
    /\ \E ev \in Events : event = [i \in Invocations |-> IF i = 1 THEN ev ELSE PyNone]
    /\ pc = [i \in Invocations |-> IF i = 1 THEN "start" ELSE "idle"]
    /\ frame = [i \in Invocations |-> NewFrame]
    /\ result = [i \in Invocations |-> NoResult]

(* What a step of the handler comes to: the locals f, the position next and the *)
(* result of the invocation.                                                    *)

\* the handler goes on at position next
Goes(f, next) == [f |-> f, next |-> next, result |-> NoResult]

\* an exception raised inside the try block: control passes to the except clause
\* of line 111 with e bound to it
Throws(f, exception) ==
    Goes([f EXCEPT !.e = exception, !.bound = @ \cup {"e"}], "except")

\* return prepare_response(...) inside the try block
Responds(f, response) ==
    IF response.ok THEN [f |-> f, next |-> "done", result |-> Returned(response.v)]
    ELSE Throws(f, response.exc)

\* the handler is left from its except clause: by line 120, or by what it raised
Leaves(f, response) ==
    [f |-> f, next |-> "done",
     result |-> IF response.ok THEN Returned(response.v) ELSE Raised(response.exc)]

\* a variant of Apply in which the invocations share their locals: C14 fails with it
ApplyShared(i, step) ==
    /\ frame' = [j \in Invocations |-> step.f]
    /\ pc' = [pc EXCEPT ![i] = step.next]
    /\ result' = [result EXCEPT ![i] = step.result]

\* invocation i takes the step
Apply(i, step) ==
    /\ frame' = [frame EXCEPT ![i] = step.f]
    /\ pc' = [pc EXCEPT ![i] = step.next]
    /\ result' = [result EXCEPT ![i] = step.result]

\* lines 51-52, given what validate_lambda_env_vars returned
Validated(f, checked) ==
    IF ~checked.valid
    THEN Responds(f, prepare_response(500, PyStr(M.VarsNotSet \o checked.message)))
    ELSE Goes(f, "parse")

\* lines 49-52
ValidateConfig(i) ==
    /\ pc[i] = "start"
    /\ Apply(i, Validated([frame[i] EXCEPT !.lambda_env_vars = os_environ],
                          validate_lambda_env_vars(os_environ)))
    /\ UNCHANGED <<os_environ, calls, event>>

\* {k.lower(): v for k, v in headers.items()}
RECURSIVE NormalizeHeaders(_, _, _)
NormalizeHeaders(keys, headers, acc) ==
    IF keys = <<>> THEN acc
    ELSE NormalizeHeaders(Tail(keys), headers,
                          DictSet(acc, Lower(Head(keys)), headers.v[Head(keys)]))

\* lines 54-58, given what json.loads returned or raised
Parsed(f, event_body, headers) ==
    IF ~event_body.ok THEN Throws(f, event_body.exc)
    ELSE Goes([f EXCEPT !.event_body = event_body.v,
                        !.normalized_headers = NormalizeHeaders(headers.k, headers, EmptyDict)],
              "detect")

\* lines 53-59
ParseEvent(i) ==
    /\ pc[i] = "parse"
    /\ Apply(i, Parsed(frame[i], JsonLoads(event[i].body), event[i].headers))
    /\ UNCHANGED <<os_environ, calls, event>>

\* lines 62-64, event_type bound
KeyEvent(f) ==
    IF PyEq(f.event_type, PyStr(V.diagnostics_ping))
    THEN Responds(f, prepare_response(200, PyStr(M.WebhookConfigured)))
    ELSE Goes(f, "match")

\* line 68, given event_body['action']
ActionEvent(f, action) ==
    IF ~action.ok THEN Throws(f, action.exc)
    ELSE Goes([f EXCEPT !.event_type = action.v, !.bound = @ \cup {"event_type"}], "match")

\* lines 61-71: with neither header, line 71 reads event_type unbound
Detected(f) ==
    IF HasKey(f.normalized_headers, H.x_event_key)
    THEN KeyEvent([f EXCEPT !.event_type = f.normalized_headers.v[H.x_event_key],
                            !.bound = @ \cup {"event_type"}])
    ELSE IF HasKey(f.normalized_headers, H.x_github_event)
         THEN IF PyEq(f.normalized_headers.v[H.x_github_event], PyStr(V.ping))
              THEN Responds(f, prepare_response(200, PyStr(M.WebhookConfigured)))
              ELSE ActionEvent(f, Subscript(f.event_body, K.action))
    ELSE Throws(f, UnboundLocalError(N.event_type))

\* lines 61-71
DetectEventType(i) ==
    /\ pc[i] = "detect"
    /\ Apply(i, Detected(frame[i]))
    /\ UNCHANGED <<os_environ, calls, event>>

\* a variant of EventTypeMatches with the comparison turned round: C7 fails with it
EventTypeDiffers(event_type, lambda_env_vars) ==
    Lower(PyStrOf(event_type)) # Lower(PyStrOf(DictGet(lambda_env_vars, K.WEBHOOK_EVENT_TYPE)))

\* the comparison of line 74
EventTypeMatches(event_type, lambda_env_vars) ==
    Lower(PyStrOf(event_type)) = Lower(PyStrOf(DictGet(lambda_env_vars, K.WEBHOOK_EVENT_TYPE)))

Matched(f) ==
    IF ~EventTypeMatches(f.event_type, f.lambda_env_vars)
    THEN Responds(f, prepare_response(500,
                         PyStr(M.EventTypeIs \o PyStrOf(f.event_type) \o M.DoesNotMatch
                               \o PyStrOf(DictGet(f.lambda_env_vars, K.WEBHOOK_EVENT_TYPE)))))
    ELSE Goes(f, "signature")

\* lines 74-77
MatchEventType(i) ==
    /\ pc[i] = "match"
    /\ Apply(i, Matched(frame[i]))
    /\ UNCHANGED <<os_environ, calls, event>>

\* the condition of line 80
SignatureRequired(lambda_env_vars) ==
    Lower(IF HasKey(lambda_env_vars, K.VALIDATE_DIGITAL_SIGNATURE)
          THEN lambda_env_vars.v[K.VALIDATE_DIGITAL_SIGNATURE].v
          ELSE V.default_FALSE) = V.true

\* secrets_manager.get_secret_value(SecretId=str(lambda_env_vars.get(name)))
SecretCall(i, lambda_env_vars, name) ==
    [op |-> "get_secret_value", inv |-> i, SecretId |-> PyStrOf(DictGet(lambda_env_vars, name))]

\* the call of line 83: its arguments are evaluated first
SignatureCheck(git_secret, signature, body) ==
    IF signature.ok THEN check_signature(git_secret, signature.v, body) ELSE signature

\* lines 83-85, given what check_signature returned or raised
Checked(f, valid) ==
    IF ~valid.ok THEN Throws(f, valid.exc)
    ELSE IF ~valid.v.v THEN Responds(f, prepare_response(401, PyStr(M.SignatureNotValid)))
    ELSE Goes(f, "extract")

\* lines 81-85, given what Secrets Manager answered
Signed(f, git_secret, body) ==
    IF ~git_secret.ok THEN Throws(f, git_secret.exc)
    ELSE Checked([f EXCEPT !.git_secret = git_secret.v,
                           !.lambda_env_vars =
                               DictSet(@, K.GIT_SECRET, PyStr(PyStrOf(git_secret.v)))],
                 SignatureCheck(git_secret.v, Subscript(f.normalized_headers, H.x_hub_signature),
                                body))

\* lines 80-85
ValidateSignature(i) ==
    /\ pc[i] = "signature"
    /\ IF ~SignatureRequired(frame[i].lambda_env_vars)
       THEN /\ Apply(i, Goes(frame[i], "extract"))
            /\ UNCHANGED calls
       ELSE /\ calls' = Append(calls, SecretCall(i, frame[i].lambda_env_vars, K.GIT_SECRET_SM_ARN))
            /\ \E git_secret \in SecretAnswers({Sample.secret_k, Sample.secret_j}, TRUE) :
                  Apply(i, Signed(frame[i], git_secret, event[i].body))
    /\ UNCHANGED <<os_environ, event>>

\* lines 87-89, env_vars bound
Extracted(f) ==
    IF ~Truthy(f.env_vars) THEN Responds(f, prepare_response(500, PyStr(M.UnableToParse)))
    ELSE Goes(f, "trigger")

\* lines 86-89
ExtractParameters(i) ==
    /\ pc[i] = "extract"
    /\ Apply(i, Extracted([frame[i] EXCEPT !.env_vars =
                              prepare_codebuild_inputs(frame[i].event_body,
                                                       frame[i].lambda_env_vars, os_environ)]))
    /\ UNCHANGED <<os_environ, calls, event>>

\* the builds CodeBuild has started
BuildCount == Cardinality({n \in 1..Len(calls) : calls[n].op = "start_build" /\ calls[n].started})

\* what code_build.start_build may do: boto3 refuses a request whose project name or
\* values are no texts; CodeBuild fails, or starts a build and gives its id
BuildAnswers(project_name, env_vars) ==
    IF project_name.t # "str" \/ \E name \in DOMAIN env_vars.v : env_vars.v[name].t # "str"
    THEN {Raise(PyExc("ParamValidationError", Sample.ParamValidation))}
    ELSE {Raise(PyExc("ClientError", Sample.CodeBuildError)),
          Return(PyStr(Sample.build \o IntToText(BuildCount + 1)))}

\* a variant of Built that goes on after start_codebuild_job raised: C13 fails
\* with it
BuiltAnyway(f, build) == Goes([f EXCEPT !.codebuild_id = build.v], "username")

\* line 92, given what start_codebuild_job returned or raised
Built(f, build) ==
    IF ~build.ok THEN Throws(f, build.exc)
    ELSE Goes([f EXCEPT !.codebuild_id = build.v], "username")

\* line 92, start_codebuild_job: the call of start_build is recorded with whether a
\* build was started
TriggerBuild(i) ==
    /\ pc[i] = "trigger"
    /\ \E build \in BuildAnswers(DictGet(frame[i].lambda_env_vars, K.CODEBUILD_PROJECT_NAME),
                                 frame[i].env_vars) :
          /\ calls' = Append(calls,
                             [op |-> "start_build", inv |-> i,
                              projectName |-> DictGet(frame[i].lambda_env_vars,
                                                      K.CODEBUILD_PROJECT_NAME),
                              environmentVariablesOverride |-> frame[i].env_vars,
                              started |-> build.ok])
          /\ Apply(i, Built(frame[i], build))
    /\ UNCHANGED <<os_environ, event>>

\* line 95
FetchUsername(i) ==
    /\ pc[i] = "username"
    /\ calls' = Append(calls, SecretCall(i, frame[i].lambda_env_vars, K.GIT_USERNAME_SM_ARN))
    /\ \E git_username \in SecretAnswers({Sample.user}, FALSE) :
          Apply(i, IF ~git_username.ok THEN Throws(frame[i], git_username.exc)
                   ELSE Goes([frame[i] EXCEPT !.git_username = git_username.v], "token"))
    /\ UNCHANGED <<os_environ, event>>

\* line 96
FetchToken(i) ==
    /\ pc[i] = "token"
    /\ calls' = Append(calls, SecretCall(i, frame[i].lambda_env_vars, K.GIT_TOKEN_SM_ARN))
    /\ \E git_token \in SecretAnswers({Sample.token}, FALSE) :
          Apply(i, IF ~git_token.ok THEN Throws(frame[i], git_token.exc)
                   ELSE Goes([frame[i] EXCEPT !.git_token = git_token.v], "callback"))
    /\ UNCHANGED <<os_environ, event>>

\* what requests.post may do with a request: raise, or give a response with a status
\* code; and what invoke_git_callback then gives or raises
CallbackAnswers(request) ==
    IF request.do = "post"
    THEN {Raise(PyExc("ConnectionError", Sample.ConnectionError))}
         \cup {Return([t |-> "int", v |-> status_code]) : status_code \in CallbackStatuses}
    ELSE IF request.do = "return" THEN {Return([t |-> "int", v |-> request.status])}
    ELSE {Raise(request.exc)}

\* the calls with the POST of request, if it has one, and what requests.post gave
WithPost(i, request, status) ==
    IF request.do = "post"
    THEN Append(calls, [op |-> "post", inv |-> i, url |-> request.url,
                        json |-> request.json, auth |-> request.auth, response |-> status])
    ELSE calls

\* lines 100-102
Merged(f) ==
    DictSet(DictSet(DictMerge(f.env_vars, f.lambda_env_vars),
                    K.GIT_USERNAME, PyStr(PyStrOf(f.git_username))),
            K.GIT_TOKEN, PyStr(PyStrOf(f.git_token)))

\* x[:7]
FirstSeven(x) ==
    IF x.t \in {"str", "list"}
    THEN Return([x EXCEPT !.v = SubSeq(x.v, 1, IF Len(x.v) < 7 THEN Len(x.v) ELSE 7)])
    ELSE Raise(PyExc("TypeError", M.NotSubscriptable))

\* lines 104-107 up to the POST: the locals and the request
Announced(f) ==
    [f |-> f,
     request |-> invoke_git_callback(f.merged_env_vars,
                                     <<PyStrOf(f.git_username), PyStrOf(f.git_token)>>)]

\* lines 103-107 up to the POST, merged_env_vars bound
Hashed(f, hash) ==
    IF ~hash.ok THEN [f |-> f, request |-> [do |-> "raise", exc |-> hash.exc]]
    ELSE Announced([f EXCEPT !.merged_env_vars =
                        DictSet(DictSet(DictSet(@, K.LATEST_SHORT_HASH, hash.v),
                                        K.CODEBUILD_STATUS, PyStr(V.INPROGRESS)),
                                K.CALLBACK_DESCRIPTION,
                                PyStr(M.JobWithId \o PyStrOf(f.codebuild_id) \o M.SubmittedOk))])

\* lines 97-107 up to the POST
Prepared(f) ==
    Hashed(f, FirstSeven(IF HasKey(f.merged_env_vars, K.LATEST_COMMIT_HASH)
                         THEN f.merged_env_vars.v[K.LATEST_COMMIT_HASH]
                         ELSE PyStr(<<>>)))

\* line 107, given what invoke_git_callback returned or raised
Called(f, status) ==
    IF ~status.ok THEN Throws(f, status.exc)
    ELSE Goes([f EXCEPT !.status = status.v.v], "respond")

\* the request is sent, if there is one, and answered
SendCallback(i, prepared) ==
    \E status \in CallbackAnswers(prepared.request) :
        /\ calls' = WithPost(i, prepared.request, status)
        /\ Apply(i, Called(prepared.f, status))

\* lines 97-107
FirstCallback(i) ==
    /\ pc[i] = "callback"
    /\ SendCallback(i, Prepared([frame[i] EXCEPT !.merged_env_vars = Merged(frame[i]),
                                                 !.bound = @ \cup {"merged_env_vars"}]))
    /\ UNCHANGED <<os_environ, event>>

\* line 109
Respond(i) ==
    /\ pc[i] = "respond"
    /\ Apply(i, Responds(frame[i],
                         prepare_response(frame[i].status,
                                          PyStr(M.CodebuildStarted
                                                \o PyStrOf(frame[i].codebuild_id)))))
    /\ UNCHANGED <<os_environ, calls, event>>

\* a call of invoke_git_callback with the arguments given: it takes two
CallInvokeGitCallback(arguments) ==
    IF Len(arguments) # 2
    THEN [do |-> "raise", exc |-> PyExc("TypeError", M.MissingAuth)]
    ELSE invoke_git_callback(arguments[1], arguments[2])

\* line 117: the locals and the request
FailedCall(f) == [f |-> f, request |-> CallInvokeGitCallback(<<f.merged_env_vars>>)]

\* lines 115-117 up to the POST: line 115 reads merged_env_vars
Failing(f) ==
    IF "merged_env_vars" \in f.bound
    THEN FailedCall([f EXCEPT !.merged_env_vars =
                        DictSet(DictSet(@, K.CALLBACK_DESCRIPTION,
                                        PyStr(M.SubmissionFailed \o PyStrOf(f.e))),
                                K.CODEBUILD_STATUS, PyStr(V.FAILED))])
    ELSE [f |-> f, request |-> [do |-> "raise", exc |-> UnboundLocalError(N.merged_env_vars)]]

\* line 120: it reads e
FaultResponse(f) ==
    Leaves(f, IF "e" \in f.bound THEN prepare_response(500, f.e)
              ELSE Raise(UnboundLocalError(N.e)))

\* lines 118-120: the except clause of line 118 binds e to what the inner try
\* raised, and Python unbinds e when that clause ends
Faulted(f, status) ==
    FaultResponse(IF status.ok THEN f ELSE [f EXCEPT !.e = PyNone, !.bound = @ \ {"e"}])

\* the request of the except clause is sent, if there is one, and answered
SendFailed(i, failing) ==
    \E status \in CallbackAnswers(failing.request) :
        /\ calls' = WithPost(i, failing.request, status)
        /\ Apply(i, Faulted(failing.f, status))

\* lines 111-120, the except clause
HandleFault(i) ==
    /\ pc[i] = "except"
    /\ SendFailed(i, Failing(frame[i]))
    /\ UNCHANGED <<os_environ, event>>

Next ==
    \E i \in Invocations :
        \/ ValidateConfig(i)
        \/ ParseEvent(i)
        \/ DetectEventType(i)
        \/ MatchEventType(i)
        \/ ValidateSignature(i)
        \/ ExtractParameters(i)
        \/ TriggerBuild(i)
        \/ FetchUsername(i)
        \/ FetchToken(i)
        \/ FirstCallback(i)
        \/ Respond(i)
        \/ HandleFault(i)

Spec == Init /\ [][Next]_vars

(* Two deliveries handled at the same time: both invocations run, their steps  *)
(* in any order.                                                               *)

\* the events delivered: a push under X-Event-Key, signed, whose two paths resolve
\* or only the first
DeliveredEvents ==
    { [body |-> PyStr(body),
       headers |-> DictOfPairs(<< <<Sample.X_Event_Key, Sample.PUSH>>,
                                  <<Sample.X_Hub_Signature,
                                    Sample.sha256 \o <<"=">> \o HmacSha256Hex(Sample.secret_k, body)>> >>)] :
        body \in {Sample.Body_ab, Sample.Body_a} }

\* os.environ: every setting, the callback's too, with and without the signature
\* check
ConcurrentEnvironments ==
    { DictOfPairs(SettingPairs(validate,
                               << <<K.GIT_CALLBACK_URI, Sample.callback_uri>>,
                                  <<K.GIT_CALLBACK_PAYLOAD, Sample.callback_payload>> >>)) :
        validate \in {Sample.True, Sample.false} }

InitConcurrent ==
    /\ os_environ \in ConcurrentEnvironments
    /\ calls = <<>>
    /\ event \in {e \in [Invocations -> DeliveredEvents] : e[1].body = PyStr(Sample.Body_ab)}
    /\ pc = [i \in Invocations |-> "start"]
    /\ frame = [i \in Invocations |-> NewFrame]
    /\ result = [i \in Invocations |-> NoResult]

SpecConcurrent == InitConcurrent /\ [][Next]_vars

----------------------------------------------------------------------------
(* The functions called by themselves: invocation 1 is one call of a function, *)
(* frame[1] holds its arguments, beside what they were made of, and result[1]  *)
(* what the call returned or raised.                                           *)

\* the length of the templates, in pieces
MaxPieces == 3

\* the length of the paths, in segments
MaxDepth == 3

\* the pieces of a template: texts that hold no placeholder and make none when put
\* together, and placeholders, given by their names
Pieces ==
    [placeholder : {FALSE}, text : {<<"-">>, <<"{">>, <<"}", "}">>, <<"{", "{", "}", "}">>,
                                    <<"{", "{">> \o Sample.a_b \o <<"}", "}">>}]
    \cup [placeholder : {TRUE}, text : {<<"a">>, <<"n">>, Sample.A_1, Sample.missing}]

\* the template made of the pieces
RECURSIVE TemplateOf(_)
TemplateOf(pieces) ==
    IF pieces = <<>> THEN <<>>
    ELSE (IF Head(pieces).placeholder THEN <<"{", "{">> \o Head(pieces).text \o <<"}", "}">>
          ELSE Head(pieces).text)
         \o TemplateOf(Tail(pieces))

\* the variables of a rendering: a text, a number and a text that holds a
\* placeholder; or none
RenderVariables ==
    { EmptyDict,
      DictSet(DictSet(DictSet(EmptyDict, <<"a">>, PyStr(Sample.x)), <<"n">>, [t |-> "int", v |-> 7]),
              Sample.A_1, PyStr(<<"{", "{", "a", "}", "}">>)) }

\* the calls of re.sub(pattern, lambda match: str(variables.get(match.group(1))), template)
RenderCalls ==
    { [function |-> "render", template |-> TemplateOf(pieces), variables |-> variables,
       pieces |-> pieces] :
        pieces \in UNION {[1..n -> Pieces] : n \in 0..MaxPieces},
        variables \in RenderVariables }

\* the paths of plain segments, as sequences of keys
PlainPaths == UNION {[1..n -> {<<"a">>, <<"b">>, <<>>}] : n \in 1..MaxDepth}

\* document[keys[1]][keys[2]]... = value, the dicts on the way made where there is none
RECURSIVE SetPath(_, _, _)
SetPath(document, keys, value) ==
    IF keys = <<>> THEN document
    ELSE IF Len(keys) = 1 THEN DictSet(document, keys[1], value)
    ELSE DictSet(document, Head(keys),
                 SetPath(IF HasKey(document, Head(keys)) /\ document.v[Head(keys)].t = "dict"
                         THEN document.v[Head(keys)] ELSE EmptyDict,
                         Tail(keys), value))

\* the calls of get_value_from_dict with a path of plain segments, on a document in
\* which value was set at keys (nothing was, where keys is empty)
PlainCalls ==
    { [function |-> "get_value_from_dict",
       dictionary |-> SetPath(document, keys, value),
       json_path |-> Join(path, <<".">>),
       path |-> path, keys |-> keys, value |-> value] :
        document \in {EmptyDict,
                      DictSet(DictSet(EmptyDict, <<"a">>, PyStr(Sample.old)),
                              <<"b">>, DictSet(EmptyDict, <<"a">>, PyStr(Sample.top)))},
        keys \in PlainPaths \cup {<<>>},
        value \in {PyStr(Sample.x), [t |-> "int", v |-> 1], PyNone,
                   [t |-> "list", v |-> <<PyStr(Sample.x)>>],
                   DictSet(EmptyDict, <<"a">>, PyStr(Sample.x))},
        path \in PlainPaths }

\* the elements of the lists filtered: with a type and a v, and one without a type
Elements ==
    { DictSet(DictSet(EmptyDict, Sample.type, PyStr(Sample.A)), <<"v">>, [t |-> "int", v |-> 1]),
      DictSet(DictSet(EmptyDict, Sample.type, PyStr(Sample.B)), <<"v">>, [t |-> "int", v |-> 2]),
      DictSet(DictSet(EmptyDict, Sample.type, PyStr(Sample.B)), <<"v">>, [t |-> "int", v |-> 3]),
      DictSet(EmptyDict, <<"v">>, [t |-> "int", v |-> 4]) }

\* the calls of get_value_from_dict with the path list[type=search_value] and the
\* segments rest after it, on a document that holds the elements under list
FilterCalls ==
    { [function |-> "get_value_from_dict",
       dictionary |-> DictSet(DictSet(EmptyDict, Sample.list, [t |-> "list", v |-> elems]),
                             <<"v">>, PyStr(Sample.top)),
       json_path |-> Join(<<Sample.list \o <<"[">> \o Sample.type \o <<"=">> \o search_value \o <<"]">>>>
                          \o rest, <<".">>),
       elems |-> elems, search_value |-> search_value, rest |-> rest] :
        elems \in UNION {[1..n -> Elements] : n \in 0..MaxDepth},
        search_value \in {Sample.B, <<"C">>},
        rest \in {<<>>, <<<<"v">>>>} }

\* the number of bracket pairs of a segment
MaxPairs == 2

\* what stands between the brackets of a segment: a key and a value, a value that
\* holds a "=", and texts with a part or the "=" missing
Conditions ==
    {Sample.k_a, Sample.k_a_b, <<"k", "=">>, <<"=", "a">>, <<"=">>, <<"k">>, <<>>}

\* the segment list[c1][c2]... of the conditions
RECURSIVE SegmentOf(_)
SegmentOf(conditions) ==
    IF conditions = <<>> THEN Sample.list
    ELSE SegmentOf(SubSeq(conditions, 1, Len(conditions) - 1))
         \o <<"[">> \o conditions[Len(conditions)] \o <<"]">>

\* the calls of parse_filter_condition on a segment with the conditions in bracket
\* pairs, and with a "[" that nothing closes after them or without
ParseCalls ==
    { [function |-> "parse_filter_condition",
       filter_condition |-> SegmentOf(conditions) \o open,
       conditions |-> conditions] :
        conditions \in UNION {[1..n -> Conditions] : n \in 0..MaxPairs},
        open \in {<<>>, <<"[">>} }

InitCalls ==
    /\ os_environ = EmptyDict
    /\ calls = <<>>
    /\ event = [i \in Invocations |-> PyNone]
    /\ pc = [i \in Invocations |-> IF i = 1 THEN "call" ELSE "idle"]
    /\ \E call \in RenderCalls \cup PlainCalls \cup FilterCalls \cup ParseCalls :
          frame = [i \in Invocations |-> IF i = 1 THEN call ELSE NewFrame]
    /\ result = [i \in Invocations |-> NoResult]

\* lines 228-229: re.sub on a template
Render(i) ==
    /\ pc[i] = "call"
    /\ frame[i].function = "render"
    /\ result' = [result EXCEPT
                     ![i] = Return(PyStr(RenderFrom(frame[i].template, 1, frame[i].variables)))]
    /\ pc' = [pc EXCEPT ![i] = "done"]
    /\ UNCHANGED <<os_environ, calls, event, frame>>

\* get_value_from_dict(dictionary, json_path)
Resolve(i) ==
    /\ pc[i] = "call"
    /\ frame[i].function = "get_value_from_dict"
    /\ result' = [result EXCEPT
                     ![i] = get_value_from_dict(frame[i].dictionary, frame[i].json_path)]
    /\ pc' = [pc EXCEPT ![i] = "done"]
    /\ UNCHANGED <<os_environ, calls, event, frame>>

\* parse_filter_condition(filter_condition)
Parse(i) ==
    /\ pc[i] = "call"
    /\ frame[i].function = "parse_filter_condition"
    /\ result' = [result EXCEPT ![i] = parse_filter_condition(frame[i].filter_condition)]
    /\ pc' = [pc EXCEPT ![i] = "done"]
    /\ UNCHANGED <<os_environ, calls, event, frame>>

NextCalls ==
    \E i \in Invocations :
        \/ Render(i)
        \/ Resolve(i)
        \/ Parse(i)

SpecCalls == InitCalls /\ [][NextCalls]_vars

----------------------------------------------------------------------------
(* What the claims speak of *)

Operations == {"get_secret_value", "start_build", "post"}

\* the calls invocation i made to the operations ops
CallsOf(i, ops) == {n \in 1..Len(calls) : calls[n].inv = i /\ calls[n].op \in ops}

\* invocation i ended by returning a response with status code s
Answered(i, s) ==
    /\ pc[i] = "done"
    /\ result[i].kind = "returned"
    /\ result[i].response.statusCode = s

\* the body of the response of invocation i, read back
BodyOf(i) == JsonLoads(PyStr(result[i].response.body))

\* needle occurs in s
Contains(s, needle) == \E k \in 1..(Len(s) + 1) : HasWordAt(s, k, needle)

\* every mandatory setting is present with a non-empty value
AllMandatorySet ==
    \A name \in Range(mandatory_environment_vars) :
        HasKey(os_environ, name) /\ os_environ.v[name].v # <<>>

\* the names configured in CODEBUILD_ENV_VARS_MAP
ConfiguredNames ==
    LET loaded == JsonLoads(DictGet(os_environ, K.CODEBUILD_ENV_VARS_MAP))
    IN  IF loaded.ok /\ loaded.v.t = "dict" THEN Range(loaded.v.k) ELSE {}

\* the callback is configured: an address and a payload
CallbackConfigured ==
    /\ Truthy(DictGet(os_environ, K.GIT_CALLBACK_URI))
    /\ HasKey(os_environ, K.GIT_CALLBACK_PAYLOAD)

\* the POSTs of invocation i whose payload carries the build status given
PostsWith(i, codebuild_status) ==
    {n \in CallsOf(i, {"post"}) :
        /\ calls[n].json.t = "dict"
        /\ PyEq(DictGet(calls[n].json, Sample.state), PyStr(codebuild_status))}

\* start_codebuild_job raised in invocation i
BuildRaised(i) == \E n \in CallsOf(i, {"start_build"}) : ~calls[n].started

\* the headers of the event of invocation i name a ping
PingHeaders(i) ==
    \E name \in DOMAIN event[i].headers.v :
        \/ Lower(name) = H.x_github_event /\ event[i].headers.v[name] = PyStr(V.ping)
        \/ Lower(name) = H.x_event_key /\ event[i].headers.v[name] = PyStr(V.diagnostics_ping)

\* the part of a signature header between its first "=" and the next one, or the end
DigestPart(header) ==
    LET first == IndexOfAny(header, {"="}, 1)
        next == IndexOfAny(header, {"="}, first + 1)
    IN  SubSeq(header, first + 1, IF next = 0 THEN Len(header) ELSE next - 1)

\* VALIDATE_DIGITAL_SIGNATURE is 'true', whatever the case of its letters
SignatureOn ==
    /\ HasKey(os_environ, K.VALIDATE_DIGITAL_SIGNATURE)
    /\ Upper(os_environ.v[K.VALIDATE_DIGITAL_SIGNATURE].v) = Upper(V.true)

\* invocation i has fetched a signing secret and found a signature header
SignatureGiven(i) ==
    /\ frame[i].git_secret.t = "str"
    /\ HasKey(frame[i].normalized_headers, H.x_hub_signature)

\* the digest part of the signature header of invocation i is the digest of its body
\* under the secret
DigestsEqual(i) ==
    DigestPart(frame[i].normalized_headers.v[H.x_hub_signature].v)
        = HmacSha256Hex(frame[i].git_secret.v, event[i].body.v)

\* invocation i has extracted parameters, triggered a build or sent a callback
WentOn(i) ==
    \/ pc[i] \in {"extract", "trigger", "username", "token", "callback", "respond"}
    \/ frame[i].env_vars # EmptyDict
    \/ CallsOf(i, {"start_build", "post"}) # {}

----------------------------------------------------------------------------
(* The claims *)

\* C1: every invocation of lambda_handler ends by returning a response with a
\* status code, a JSON body and the headers; no exception leaves lambda_handler.
C1_EndsWithResponse ==
    \A i \in Invocations :
        pc[i] = "done" =>
            /\ result[i].kind = "returned"
            /\ result[i].response.headers = ResponseHeaders
            /\ BodyOf(i).ok

\* C2: in every execution in which start_codebuild_job is called, the parameter map
\* it receives holds a value for every name configured in CODEBUILD_ENV_VARS_MAP.
C2_NoPartialParameterMap ==
    \A n \in 1..Len(calls) :
        calls[n].op = "start_build" =>
            ConfiguredNames \subseteq DOMAIN calls[n].environmentVariablesOverride.v

\* C3: when start_codebuild_job raised, the invocation ends with a response, exactly
\* one callback with CODEBUILD_STATUS=FAILED was issued, and the status code of the
\* response is the status that callback produced.
C3_BuildFailureIsCalledBack ==
    \A i \in Invocations :
        pc[i] = "done" /\ BuildRaised(i) /\ CallbackConfigured =>
            /\ result[i].kind = "returned"
            /\ Cardinality(PostsWith(i, V.FAILED)) = 1
            /\ \A n \in PostsWith(i, V.FAILED) :
                  /\ calls[n].response.ok
                  /\ calls[n].response.v.v = result[i].response.statusCode

\* C4: when the except clause is left after its own callback attempt failed, the
\* handler returns a response, and the fault in it is the fault the except clause
\* was entered with.
C4_OriginalFaultIsReturned ==
    [][\A i \in Invocations :
          pc[i] = "except" /\ pc'[i] = "done" /\ "e" \notin frame'[i].bound =>
              /\ result'[i].kind = "returned"
              /\ JsonLoads(PyStr(result'[i].response.body)).ok
              /\ DictGet(JsonLoads(PyStr(result'[i].response.body)).v, K.fault)
                     = PyStr(PyStrOf(frame[i].e))]_vars

C6_MalformedSignatureIs401 ==
    \A i \in Invocations :
        /\ SignatureGiven(i)
        /\ ~Contains(frame[i].normalized_headers.v[H.x_hub_signature].v, <<"=">>)
        => /\ check_signature(frame[i].git_secret,
                              frame[i].normalized_headers.v[H.x_hub_signature],
                              event[i].body)
                  = Return([t |-> "bool", v |-> FALSE])
           /\ Answered(i, 401)

\* the event type invocation i detected is not a ping and is not, ignoring case, the
\* configured WEBHOOK_EVENT_TYPE
EventTypeMismatch(i) ==
    /\ "event_type" \in frame[i].bound
    /\ frame[i].event_type # PyStr(V.diagnostics_ping)
    /\ Upper(PyStrOf(frame[i].event_type))
           # Upper(PyStrOf(DictGet(os_environ, K.WEBHOOK_EVENT_TYPE)))

\* C7: when the detected event type is not, ignoring case, the configured
\* WEBHOOK_EVENT_TYPE, the invocation goes no further than the comparison, ends with a
\* response of status 500, and makes no call to CodeBuild, Secrets Manager or the
\* git server.
C7_EventTypeMismatchIs500 ==
    \A i \in Invocations :
        EventTypeMismatch(i) =>
            /\ pc[i] \in {"match", "done"}
            /\ pc[i] = "done" => Answered(i, 500)
            /\ CallsOf(i, Operations) = {}

\* C7, its case: an event type other than the configured one was answered 500.
C7_Witness ==
    \E i \in Invocations : EventTypeMismatch(i) /\ Answered(i, 500)

\* C8: with the settings in place, a request whose headers name a ping is answered
\* 200 whatever its body: the invocation goes no further than the detection of the
\* event type and makes no call to CodeBuild, Secrets Manager or the git server.
C8_PingIs200 ==
    \A i \in Invocations :
        pc[i] # "idle" /\ AllMandatorySet /\ PingHeaders(i) =>
            /\ pc[i] \in {"start", "parse", "detect", "done"}
            /\ pc[i] = "done" => Answered(i, 200)
            /\ CallsOf(i, Operations) = {}

\* C9: when a mandatory setting is not present with a non-empty value, the invocation
\* ends at its first step with a response of status 500 and makes no call to
\* CodeBuild, Secrets Manager or the git server.
C9_MissingSettingIs500 ==
    \A i \in Invocations :
        ~AllMandatorySet /\ pc[i] \notin {"idle", "start"} =>
            /\ Answered(i, 500)
            /\ CallsOf(i, Operations) = {}

\* invocation i is on the success path: it started a build and its INPROGRESS
\* callback returned a status
SuccessPath(i) ==
    /\ \E n \in CallsOf(i, {"start_build"}) : calls[n].started
    /\ frame[i].status # 0

\* the status the INPROGRESS callback of invocation i returned: that of its POST, or
\* 200 where no address is configured
CallbackStatus(i) ==
    IF CallsOf(i, {"post"}) = {} THEN 200
    ELSE calls[CHOOSE n \in CallsOf(i, {"post"}) : TRUE].response.v.v

\* the response of invocation i has status code s and a body that holds statusCode
\* s and the build id under 'message' where 200 <= s < 300 and under 'fault'
\* otherwise, and not the other key
RespondsWith(i, s, id) ==
    /\ result[i].kind = "returned"
    /\ result[i].response.statusCode = s
    /\ BodyOf(i).ok
    /\ BodyOf(i).v.t = "dict"
    /\ DictGet(BodyOf(i).v, K.statusCode) = [t |-> "int", v |-> s]
    /\ HasKey(BodyOf(i).v, K.message) <=> (200 <= s /\ s < 300)
    /\ HasKey(BodyOf(i).v, K.fault) <=> ~(200 <= s /\ s < 300)
    /\ \A key \in {K.message, K.fault} :
          HasKey(BodyOf(i).v, key) =>
              BodyOf(i).v.v[key].t = "str" /\ Contains(BodyOf(i).v.v[key].v, id)

\* C10: on the success path the response has the status code s the INPROGRESS
\* callback returned and names the build id, under 'message' exactly when
\* 200 <= s < 300 and under 'fault' otherwise.
C10_ResponseFollowsCallback ==
    \A i \in Invocations :
        pc[i] = "done" /\ SuccessPath(i) =>
            /\ frame[i].status = CallbackStatus(i)
            /\ frame[i].codebuild_id.t = "str"
            /\ RespondsWith(i, CallbackStatus(i), frame[i].codebuild_id.v)

\* C10, its case: the callback returned 300 and the response is out.
C10_Witness ==
    \E i \in Invocations :
        /\ pc[i] = "done"
        /\ SuccessPath(i)
        /\ CallsOf(i, {"post"}) # {}
        /\ CallbackStatus(i) = 300
        /\ result[i].kind = "returned"

\* no callback address is configured, or an empty one
NoAddress == ~Truthy(DictGet(os_environ, K.GIT_CALLBACK_URI))

\* invocation i has reached its callback: merged_env_vars is bound
CallbackReached(i) == "merged_env_vars" \in frame[i].bound

\* what invoke_git_callback does with the merged_env_vars of invocation i
CallbackOf(i) ==
    invoke_git_callback(frame[i].merged_env_vars,
                        <<PyStrOf(frame[i].git_username), PyStrOf(frame[i].git_token)>>)

\* C11: where GIT_CALLBACK_URI is not configured or is empty, invoke_git_callback
\* reports 200 and no POST is made; an invocation that triggered its build and
\* reached the callback goes on to respond, with status 200 and the build id.
C11_NoAddressIs200 ==
    \A i \in Invocations :
        NoAddress =>
            /\ CallsOf(i, {"post"}) = {}
            /\ CallbackReached(i) =>
                  /\ CallbackOf(i) = [do |-> "return", status |-> 200]
                  /\ pc[i] \in {"respond", "done"}
                  /\ pc[i] = "done" =>
                        /\ frame[i].codebuild_id.t = "str"
                        /\ RespondsWith(i, 200, frame[i].codebuild_id.v)

\* C11, its case: the address is configured empty, the build was triggered and the
\* response is out.
C11_Witness ==
    \E i \in Invocations :
        /\ HasKey(os_environ, K.GIT_CALLBACK_URI)
        /\ NoAddress
        /\ CallbackReached(i)
        /\ \E n \in CallsOf(i, {"start_build"}) : calls[n].started
        /\ Answered(i, 200)

\* a callback address is configured and no payload
AddressWithoutPayload ==
    /\ Truthy(DictGet(os_environ, K.GIT_CALLBACK_URI))
    /\ ~HasKey(os_environ, K.GIT_CALLBACK_PAYLOAD)

\* C12: where GIT_CALLBACK_URI is configured and GIT_CALLBACK_PAYLOAD is not,
\* invoke_git_callback raises; the invocation makes no POST, its callback gives no
\* status, and it passes to its except clause with that fault and never back to
\* the callback.
C12_NoPayloadFails ==
    \A i \in Invocations :
        AddressWithoutPayload =>
            /\ CallsOf(i, {"post"}) = {}
            /\ CallbackReached(i) =>
                  /\ CallbackOf(i).do = "raise"
                  /\ pc[i] \in {"except", "done"}
                  /\ frame[i].status = 0
                  /\ pc[i] = "except" => frame[i].e = CallbackOf(i).exc

\* C12, its case: the callback of such a configuration has raised.
C12_Witness ==
    \E i \in Invocations :
        AddressWithoutPayload /\ CallbackReached(i) /\ pc[i] = "except"

\* C13: every POST carries the status INPROGRESS or FAILED; one with INPROGRESS
\* comes after a start_build call of the same invocation that started a build; and
\* an invocation makes at most one POST with INPROGRESS.
C13_OnlyInProgressOrFailed ==
    \A i \in Invocations :
        /\ \A n \in CallsOf(i, {"post"}) :
              /\ n \in PostsWith(i, V.INPROGRESS) \cup PostsWith(i, V.FAILED)
              /\ n \in PostsWith(i, V.INPROGRESS) =>
                    \E m \in CallsOf(i, {"start_build"}) : m < n /\ calls[m].started
        /\ Cardinality(PostsWith(i, V.INPROGRESS)) <= 1

\* C13, its case: a POST with INPROGRESS has been made.
C13_Witness ==
    \E i \in Invocations : PostsWith(i, V.INPROGRESS) # {}

\* the settings passed through: those whose name starts with USERVAR_ or GIT_
PassThroughNames ==
    {name \in DOMAIN os_environ.v :
        HasWordAt(name, 1, K.USERVAR_) \/ HasWordAt(name, 1, K.GIT_)}

\* C15: every parameter map handed to start_build holds every setting whose name
\* starts with USERVAR_ or GIT_, with the value it has in os.environ.
C15_PassThroughInEveryMap ==
    \A n \in 1..Len(calls) :
        calls[n].op = "start_build" =>
            \A name \in PassThroughNames :
                /\ HasKey(calls[n].environmentVariablesOverride, name)
                /\ calls[n].environmentVariablesOverride.v[name] = os_environ.v[name]

\* the start_build calls of invocation i
BuildCallsOf(i) == CallsOf(i, {"start_build"})

\* the text under 'description' in the payload of the POST calls[n]
DescriptionOf(n) == PyStrOf(DictGet(calls[n].json, Sample.description))

\* C14: of two invocations running at the same time, each makes at most one
\* start_build call, and exactly one once it is past the trigger, whatever the other
\* has done; the parameter map of the call is the one extracted from its own event,
\* its POST names its own build id, and two builds started have different ids.
C14_OwnBuildEach ==
    \A i \in Invocations :
        /\ Cardinality(BuildCallsOf(i)) <= 1
        /\ pc[i] \in {"username", "token", "callback", "respond"} =>
              Cardinality(BuildCallsOf(i)) = 1
        /\ \A n \in BuildCallsOf(i) :
              /\ calls[n].environmentVariablesOverride = frame[i].env_vars
              /\ calls[n].environmentVariablesOverride
                     = prepare_codebuild_inputs(JsonLoads(event[i].body).v, os_environ,
                                                os_environ)
        /\ \A n \in CallsOf(i, {"post"}) :
              /\ frame[i].codebuild_id.t = "str"
              /\ Contains(DescriptionOf(n), frame[i].codebuild_id.v)
        /\ \A j \in Invocations \ {i} :
              frame[i].codebuild_id.t = "str" /\ frame[j].codebuild_id.t = "str" =>
                  frame[i].codebuild_id # frame[j].codebuild_id

\* C14, its case: the same event was delivered twice, and both invocations have
\* started a build with the same parameters and responded.
C14_Witness ==
    /\ event[1] = event[2]
    /\ \A i \in Invocations :
          /\ pc[i] = "done"
          /\ result[i].kind = "returned"
          /\ \E n \in BuildCallsOf(i) : calls[n].started
    /\ \A n \in BuildCallsOf(1), m \in BuildCallsOf(2) :
          calls[n].environmentVariablesOverride = calls[m].environmentVariablesOverride

\* invocation i was a call of the function and has ended
Called_(i, function) == pc[i] = "done" /\ frame[i].function = function

\* what the pieces of a template come to with the variables: a text stays, and a
\* placeholder becomes the text of the value under its name, None where there is none
RECURSIVE Rendered(_, _)
Rendered(pieces, variables) ==
    IF pieces = <<>> THEN <<>>
    ELSE (IF ~Head(pieces).placeholder THEN Head(pieces).text
          ELSE IF HasKey(variables, Head(pieces).text)
               THEN PyStrOf(variables.v[Head(pieces).text])
          ELSE T.None)
         \o Rendered(Tail(pieces), variables)

\* C16: rendering a template puts, for each {{identifier}}, the text of the value of
\* the identifier in the variables, and None for an identifier the variables lack;
\* the rest of the template stays as it is.
C16_RenderReplacesPlaceholders ==
    \A i \in Invocations :
        Called_(i, "render") =>
            result[i] = Return(PyStr(Rendered(frame[i].pieces, frame[i].variables)))

\* C16, its case: {{a}}-{{missing}} with a = x was rendered, as x-None.
C16_Witness ==
    \E i \in Invocations :
        /\ Called_(i, "render")
        /\ frame[i].template
               = <<"{", "{", "a", "}", "}", "-", "{", "{">> \o Sample.missing \o <<"}", "}">>
        /\ DictGet(frame[i].variables, <<"a">>) = PyStr(Sample.x)
        /\ result[i] = Return(PyStr(Sample.x \o <<"-">> \o T.None))

\* invocation i was a call of get_value_from_dict with a path of plain segments
PlainCall(i) ==
    /\ Called_(i, "get_value_from_dict")
    /\ "path" \in DOMAIN frame[i]

\* C17: where a value was set in a document at a path of plain segments,
\* get_value_from_dict gives that value for the path.
C17_ResolveRoundTrip ==
    \A i \in Invocations :
        PlainCall(i) /\ frame[i].keys # <<>> /\ frame[i].path = frame[i].keys =>
            result[i] = Return(frame[i].value)

\* C17, its case: a value set three segments deep was resolved.
C17_Witness ==
    \E i \in Invocations :
        /\ PlainCall(i)
        /\ Len(frame[i].keys) = 3
        /\ frame[i].path = frame[i].keys
        /\ result[i].ok

\* how far the keys lead from the cursor: to a value, to a mapping that lacks the
\* key, or to a cursor that is no mapping
RECURSIVE Walk(_, _)
Walk(cursor, keys) ==
    IF keys = <<>> THEN "value"
    ELSE IF cursor.t # "dict" THEN "TypeMismatch"
    ELSE IF ~HasKey(cursor, Head(keys)) THEN "NotFound"
    ELSE Walk(cursor.v[Head(keys)], Tail(keys))

\* C18: with plain segments, get_value_from_dict raises its not-found fault where
\* the cursor is a mapping that lacks the key and its no-object fault where the
\* cursor is no mapping, and returns a value in neither case.
C18_MissingKeyFails ==
    \A i \in Invocations :
        PlainCall(i) =>
            /\ Walk(frame[i].dictionary, frame[i].path) = "NotFound" =>
                  /\ ~result[i].ok
                  /\ result[i].exc.class = "TypeError"
                  /\ Contains(result[i].exc.v, M.NotFoundInDict)
            /\ Walk(frame[i].dictionary, frame[i].path) = "TypeMismatch" =>
                  /\ ~result[i].ok
                  /\ result[i].exc.class = "TypeError"
                  /\ Contains(result[i].exc.v, M.NoObjectFound)
            /\ Walk(frame[i].dictionary, frame[i].path) = "value" => result[i].ok

\* C18, its case: a.b was resolved against the empty document, and failed.
C18_Witness ==
    \E i \in Invocations :
        /\ PlainCall(i)
        /\ frame[i].dictionary = EmptyDict
        /\ frame[i].path = <<<<"a">>, <<"b">>>>
        /\ ~result[i].ok

\* invocation i was a call of get_value_from_dict with a filter on the list
FilterCall(i) ==
    /\ Called_(i, "get_value_from_dict")
    /\ "elems" \in DOMAIN frame[i]

\* the places in the list of the elements whose type is the value searched
MatchesOf(i) ==
    {k \in 1..Len(frame[i].elems) :
        /\ HasKey(frame[i].elems[k], Sample.type)
        /\ frame[i].elems[k].v[Sample.type] = PyStr(frame[i].search_value)}

\* what the segments after the filter give from the cursor
RestFrom(i, cursor) ==
    IF frame[i].rest = <<>> THEN Return(cursor)
    ELSE get_value_from_dict(cursor, Join(frame[i].rest, <<".">>))

\* the call of invocation i gave what outcome gives: the value, or a fault
Gave(i, outcome) ==
    /\ result[i].ok = outcome.ok
    /\ result[i].ok => result[i].v = outcome.v

\* every element of the list has a type
AllTyped(i) == \A k \in 1..Len(frame[i].elems) : HasKey(frame[i].elems[k], Sample.type)

\* C19: with a filter that elements of the list match, one or several, on a list
\* whose elements all have the field, get_value_from_dict goes on from the first of
\* them in list order.
C19_FirstMatchIsTaken ==
    \A i \in Invocations :
        FilterCall(i) /\ AllTyped(i) /\ MatchesOf(i) # {} =>
            Gave(i, RestFrom(i, frame[i].elems[CHOOSE k \in MatchesOf(i) :
                                                  \A j \in MatchesOf(i) : k <= j]))

\* C20: with a filter that no element of the list matches, get_value_from_dict does
\* not fail at the filter: it goes on from the cursor as it was.
C20_NoMatchLeavesCursor ==
    \A i \in Invocations :
        FilterCall(i) /\ MatchesOf(i) = {} =>
            Gave(i, RestFrom(i, frame[i].dictionary))


\* invocation i was a call of parse_filter_condition
ParseCall(i) == Called_(i, "parse_filter_condition")

\* the place of the first "=" of the text, 0 where it has none
FirstEquals(text) == IndexOfAny(text, {"="}, 1)

\* the text before its first "=" and the text after it
AroundFirstEquals(text) ==
    <<SubSeq(text, 1, FirstEquals(text) - 1), SubSeq(text, FirstEquals(text) + 1, Len(text))>>

\* C21: parse_filter_condition on a segment with exactly one bracket pair, whose
\* content holds a "=", gives the content before its first "=" as the key and all
\* that follows it as the value; on a segment that holds a "[" and no or several
\* bracket pairs it raises its invalid-key fault.
C21_SplitsOnFirstEquals ==
    \A i \in Invocations :
        ParseCall(i) =>
            /\ Len(frame[i].conditions) = 1 /\ FirstEquals(frame[i].conditions[1]) # 0 =>
                  /\ result[i].ok
                  /\ result[i].v = AroundFirstEquals(frame[i].conditions[1])
            /\ Len(frame[i].conditions) # 1 /\ Contains(frame[i].filter_condition, <<"[">>) =>
                  /\ ~result[i].ok
                  /\ result[i].exc.class = "TypeError"
                  /\ Contains(result[i].exc.v, M.InvalidKey)

\* the names under which lambda_handler keeps what it fetched from Secrets Manager
SecretNames == {K.GIT_SECRET, K.GIT_USERNAME, K.GIT_TOKEN}

\* the secret values invocation i has fetched so far
SecretsOf(i) ==
    {frame[i].git_secret, frame[i].git_username, frame[i].git_token} \ {PyNone}

\* the calls in which invocation i fetched the credentials of the callback
CredentialCallsOf(i) ==
    {m \in CallsOf(i, {"get_secret_value"}) :
        calls[m].SecretId \in {PyStrOf(DictGet(os_environ, K.GIT_USERNAME_SM_ARN)),
                               PyStrOf(DictGet(os_environ, K.GIT_TOKEN_SM_ARN))}}

\* C22: no parameter map handed to start_build holds a secret fetched from Secrets
\* Manager, under its name or as a value; an invocation fetches the credentials of
\* the callback only after its start_build call; and the signing secret is kept in
\* lambda_env_vars only, not in os.environ and not in the parameters extracted.
C22_SecretsStayOut ==
    \A i \in Invocations :
        /\ \A n \in BuildCallsOf(i) :
              /\ \A name \in SecretNames \ DOMAIN os_environ.v :
                    ~HasKey(calls[n].environmentVariablesOverride, name)
              /\ \A name \in DOMAIN calls[n].environmentVariablesOverride.v :
                    calls[n].environmentVariablesOverride.v[name] \notin SecretsOf(i)
        /\ \A m \in CredentialCallsOf(i) : \E n \in BuildCallsOf(i) : n < m
        /\ pc[i] # "idle" =>
              /\ ~HasKey(os_environ, K.GIT_SECRET)
              /\ ~HasKey(frame[i].env_vars, K.GIT_SECRET)

\* C22, its case: with the signing secret fetched and kept in lambda_env_vars, a
\* build was triggered and the credentials were fetched after it.
C22_Witness ==
    \E i \in Invocations :
        /\ frame[i].git_secret.t = "str"
        /\ HasKey(frame[i].lambda_env_vars, K.GIT_SECRET)
        /\ BuildCallsOf(i) # {}
        /\ frame[i].git_username.t = "str"
        /\ frame[i].git_token.t = "str"
        /\ Cardinality(CredentialCallsOf(i)) = 2
====
